---- MODULE Spec2Model ----
(***************************************************************************)
(* A model of the ADAAD-6 trust and execution spine: the hash-chained      *)
(* provenance ledger, the three-stage executor and its recording wrapper,  *)
(* the admissibility kernel and the config freeze controller.              *)
(***************************************************************************)
EXTENDS Integers, Sequences, FiniteSets, TLC

VARIABLES
    fs,            \* the ledger path on disk: parent directory, kind, lines
    last_op,       \* name of the last ledger operation called
    last_cfg,      \* the cfg argument of that call
    raised,        \* the exception that call raised ("" when it returned)
    appended,      \* the events returned by the successful append_event calls
    read_result,   \* the list returned by the last read_events call
    pc,            \* executor: idle, running, returned or raised
    call,          \* executor: entry point, effective cfg and plan of the call
    idx,           \* executor: plan steps the loop of _run_plan has consumed
    halted,        \* executor: _run_plan's halted flag
    crash,         \* executor: crash_code, crash_detail, crash_stage, crash_step
    steps,         \* executor: the StepLogs so far
    calls,         \* executor: the stage functions invoked, in order
    artifacts,     \* executor: context.artifacts
    last_artifact_hash,  \* executor: content hash of the last artifact event
    exc,           \* executor: the exception the call raised (<<>> for none)
    adm_in,        \* admissibility: the bundle and resolver of the calls
    adm_out,       \* admissibility: what is_admissible and refusal_mode gave
    cfg_in,        \* load_config: the environment and key provider of the call
    cfg_out,       \* load_config: the config returned, or the exception
    map_in,        \* exception mapping: the stage and the exception it raises
    map_out,       \* exception mapping: the StepLog of the step
    mut_in,        \* mutate_code: the config, the params and the environment
    mut_out,       \* mutate_code: what validate and run gave
    tampered,      \* ledger: the last tamper check of the events on file
    swapped,       \* ledger: the last check of the events with two exchanged
    read_limit,    \* ledger: the limit of the last read_events call
    orch,          \* orchestrator: the position and result of run()
    boot_out,      \* boot: the config boot_sequence was given and its report
    ev_store,      \* evidence store: whether one is given, and its _lineages
    gate_out,      \* evidence store: the last resolve_lineage or gate call
    conc,          \* ledger appenders: the lock and each appender's position
    planner        \* make_plan: the call and the plan it returned

ledgerVars == <<last_op, last_cfg, raised, appended, read_result, tampered, swapped,
                read_limit>>
execVars == <<pc, call, idx, halted, crash, steps, calls, artifacts,
              last_artifact_hash, exc>>
mapVars == <<map_in, map_out>>
mutVars == <<mut_in, mut_out>>
pureVars == <<adm_in, adm_out, cfg_in, cfg_out, mapVars, mutVars>>
extraVars == <<ev_store, gate_out, conc, planner>>
orchVars == <<orch, boot_out, extraVars>>
vars == <<fs, ledgerVars, execVars, pureVars, orchVars>>

(***************************************************************************)
(* Bounds of the model.                                                    *)
(***************************************************************************)
MaxLedger == 3
MaxPlan == 2
MaxGates == 2
MaxAppenders == 3

(***************************************************************************)
(* Canonical encoding and hashing.                                         *)
(***************************************************************************)
\* Python's None.
None == <<>>

\* hashlib.sha256(data).hexdigest(): collision-free, so a tagged copy of the
\* bytes that were hashed.
sha256_hex(data) == <<"sha256", data>>

\* Every object key the model uses, ascending by code point (sort_keys=True).
KeyOrder ==
    << "action", "action_id", "actions_dir", "actor", "adapter",
       "allowlist_ok", "alt", "ancestor", "archetype", "artifact",
       "artifacts", "ast_ok", "authority_domain", "authority_hash",
       "auto_promote", "budget", "can_execute", "can_issue_capabilities",
       "capability_hashes", "code", "config_hash", "content_hash",
       "cost_hint", "counterfactual_budget", "counterfactual_hash", "crash",
       "decay_only", "detail", "deterministic", "doctor_gate",
       "doctor_reason", "effects", "event_id", "exitcode", "expires_at",
       "gate_id", "gate_result_hashes", "goal", "hash", "home", "id",
       "inputs", "intent", "ledger_path", "limits", "log", "log_path",
       "mandate", "max_calls", "mutation_kind", "name", "ok", "output",
       "params", "parent_hash", "payload", "payload_hash", "plan", "policy",
       "preconditions", "prev_hash", "proposal_hash", "proposal_kind",
       "reason", "rejected", "requested_effects", "resource_caps",
       "resource_tier", "result", "run_id", "sandbox_error", "sandbox_ok",
       "schema_version", "scope", "scopes", "score", "stage", "stages",
       "status", "step", "steps", "timeout", "truncated", "ts", "type",
       "unlisted_commitment", "uri", "value", "version",
       "will_emit_execution_record", "workspace" >>

\* The keys whose values are themselves objects, and those whose values are
\* lists of objects.
ObjectKeys ==
    {"payload", "artifact", "step", "log", "crash", "workspace", "scope", "limits"}
ListKeys == {"plan", "steps", "stages", "rejected"}
\* Whether the value under key k of an object with keys D is itself an
\* object: "step" is the step's dict in an event payload and the step id, a
\* string, in a crash summary (the one with a "stage" key).
is_object(D, k) == k \in ObjectKeys /\ ~(k = "step" /\ "stage" \in D)

sort_keys(D) == SelectSeq(KeyOrder, LAMBDA k : k \in D)

\* json.dumps(obj, sort_keys=True, separators=(",", ":")) of an object: the
\* key/value pairs in key order, nested objects encoded the same way.
RECURSIVE canonical_json(_)
canonical_json(obj) ==
    LET ks == sort_keys(DOMAIN obj)
    IN  [i \in 1..Len(ks) |->
            << ks[i],
               IF is_object(DOMAIN obj, ks[i]) THEN canonical_json(obj[ks[i]])
               ELSE IF ks[i] \in ListKeys
                    THEN [j \in 1..Len(obj[ks[i]]) |-> canonical_json(obj[ks[i]][j])]
               ELSE obj[ks[i]] >>]

\* json.dumps of a str: the quoted string literal, one item holding the
\* quote and the escaped text, so that it compares with an encoded object.
canonical_json_str(s) == << <<"\"", s>> >>

\* json.loads of one serialized object.
RECURSIVE json_loads(_)
json_loads(line) ==
    [k \in {line[i][1] : i \in 1..Len(line)} |->
        LET i == CHOOSE j \in 1..Len(line) : line[j][1] = k
        IN  IF is_object({line[n][1] : n \in 1..Len(line)}, k) THEN json_loads(line[i][2])
            ELSE IF k \in ListKeys
                 THEN [j \in 1..Len(line[i][2]) |-> json_loads(line[i][2][j])]
            ELSE line[i][2]]

\* dict minus one key.
without(obj, key) == [k \in DOMAIN obj \ {key} |-> obj[k]]

compute_event_hash_unpayloaded(event_without_hash) ==
    sha256_hex(canonical_json(without(event_without_hash, "payload")))

compute_event_hash(event_without_hash) ==
    sha256_hex(canonical_json(event_without_hash))

\* verify_chain: the loop over enumerate(events), as a fold over the indices.
RECURSIVE verify_from(_, _, _)
verify_from(events, index, previous_hash) ==
    IF index > Len(events) THEN TRUE
    ELSE LET event == events[index]
             stored_hash == IF "hash" \in DOMAIN event THEN event.hash ELSE None
             expected_hash == compute_event_hash(without(event, "hash"))
             prev == IF "prev_hash" \in DOMAIN event THEN event.prev_hash ELSE None
         IN  IF stored_hash # expected_hash THEN FALSE
             ELSE IF index = 1 /\ prev # None THEN FALSE
             ELSE IF index > 1 /\ prev # previous_hash THEN FALSE
             ELSE verify_from(events, index + 1, stored_hash)

verify_chain_hashes_only(events) ==
    \A i \in 1..Len(events) :
        events[i].hash = compute_event_hash(without(events[i], "hash"))

verify_chain(events) == verify_from(events, 1, None)

(***************************************************************************)
(* The configuration record.                                               *)
(***************************************************************************)
\* AdaadConfig() with its field defaults. Seconds are counted in hundredths
\* and resource_scaling in tenths, so that 0.01 s is 1 and 2.5 is 25.
DefaultConfig ==
    [mutation_policy |-> "locked", readiness_gate_sig |-> None,
     planner_max_steps |-> 25, planner_max_seconds |-> 200,
     mode |-> "dev", config_schema_version |-> "1",
     resource_tier |-> "mobile", resource_scaling |-> 10,
     log_path |-> ".adaad/logs/adaad6.jsonl", actions_dir |-> ".adaad/actions",
     ledger_enabled |-> FALSE, ledger_dir |-> ".adaad/ledger",
     ledger_filename |-> "events.jsonl", ledger_schema_version |-> "1",
     ledger_readonly |-> FALSE, emergency_halt |-> FALSE,
     agents_enabled |-> TRUE, freeze_reason |-> ""]

\* crash_code, crash_detail, crash_stage and crash_step all None.
NoCrash == [code |-> "", detail |-> "", stage |-> "", step |-> ""]

(***************************************************************************)
(* The provenance ledger.                                                  *)
(***************************************************************************)
LedgerCfgs ==
    {[DefaultConfig EXCEPT !.ledger_enabled = e, !.ledger_readonly = r, !.ledger_dir = d] :
        e \in BOOLEAN, r \in BOOLEAN, d \in {"", ".adaad/ledger"}}

EventTypes == {"alpha", "beta"}
Payloads == {[value |-> 1]}
Uuids == {"u1"}
Timestamps == {"2024-01-01T00:00:00Z"}
Actors == {"tester"}

\* ensure_ledger: "" when it returns, else the exception it raises.
ensure_ledger_raises(c, f) ==
    IF ~c.ledger_enabled THEN "RuntimeError: Ledger is disabled"
    ELSE IF c.ledger_dir = "" \/ c.ledger_filename = "" THEN "ValueError: ledger path unset"
    ELSE IF f.kind = "dir" THEN "RuntimeError: ledger path is a directory"
    ELSE ""

\* ensure_ledger: the path afterwards (mkdir of the parent, touch of the file).
ensure_ledger_fs(c, f) ==
    IF ~c.ledger_enabled \/ c.ledger_dir = "" \/ c.ledger_filename = "" THEN f
    ELSE IF f.kind = "dir" THEN [f EXCEPT !.parent = TRUE]
    ELSE [f EXCEPT !.parent = TRUE, !.kind = "file"]

_last_hash_genesis(lines) == None

\* _last_hash: the hash of the last line's event, None for an empty file.
_last_hash(lines) ==
    IF Len(lines) = 0 THEN None
    ELSE LET last_event == json_loads(lines[Len(lines)])
         IN  IF "hash" \in DOMAIN last_event THEN last_event.hash ELSE None

\* The event append_event builds and returns.
build_event(c, event_type, payload, ts, actor, uuid, prev_hash) ==
    LET event_without_hash ==
            [schema_version |-> c.ledger_schema_version, event_id |-> uuid,
             ts |-> ts, actor |-> actor, type |-> event_type,
             payload |-> payload, prev_hash |-> prev_hash]
    IN  [k \in DOMAIN event_without_hash \cup {"hash"} |->
            IF k = "hash" THEN compute_event_hash(event_without_hash)
                          ELSE event_without_hash[k]]

readonly_rejects_never(c) == FALSE

\* append_event's first statement: a read-only cfg raises LEDGER_READONLY.
readonly_rejects(c) == c.ledger_readonly

\* append_event: the exception it raises, "" when it returns.
append_raises(c, f) ==
    IF readonly_rejects(c) THEN "RuntimeError: LEDGER_READONLY"
    ELSE ensure_ledger_raises(c, f)

\* append_event: the path afterwards.
append_fs(c, f, event_type, payload, ts, actor, uuid) ==
    IF readonly_rejects(c) THEN f
    ELSE IF ensure_ledger_raises(c, f) # "" THEN ensure_ledger_fs(c, f)
    ELSE LET g == ensure_ledger_fs(c, f)
             event == build_event(c, event_type, payload, ts, actor, uuid,
                                  _last_hash(g.lines))
         IN  [g EXCEPT !.lines = Append(g.lines, canonical_json(event))]

parse_lines_reversed(lines) ==
    [i \in 1..Len(lines) |-> json_loads(lines[Len(lines) + 1 - i])]

\* read_events: every line parsed, in file order.
parse_lines(lines) == [i \in 1..Len(lines) |-> json_loads(lines[i])]

\* events[-limit:] of Python.
last_slice(events, limit) ==
    IF limit = 0 \/ limit >= Len(events) THEN events
    ELSE SubSeq(events, Len(events) - limit + 1, Len(events))

AppendEvent(c, event_type, payload, ts, actor, uuid) ==
    /\ Len(fs.lines) < MaxLedger
    /\ last_op' = "append_event"
    /\ last_cfg' = c
    /\ raised' = append_raises(c, fs)
    /\ fs' = append_fs(c, fs, event_type, payload, ts, actor, uuid)
    /\ appended' =
          IF append_raises(c, fs) = ""
          THEN Append(appended,
                      build_event(c, event_type, payload, ts, actor, uuid,
                                  _last_hash(ensure_ledger_fs(c, fs).lines)))
          ELSE appended
    /\ UNCHANGED <<read_result, tampered, swapped, read_limit, execVars, pureVars,
                   orchVars>>

\* limit = -1 stands for limit=None.
ReadEvents(c, limit) ==
    /\ last_op' = "read_events"
    /\ last_cfg' = c
    /\ raised' = ensure_ledger_raises(c, fs)
    /\ fs' = ensure_ledger_fs(c, fs)
    /\ read_result' =
          IF ensure_ledger_raises(c, fs) # "" THEN <<>>
          ELSE IF limit = -1 THEN parse_lines(fs.lines)
          ELSE last_slice(parse_lines(fs.lines), limit)
    /\ read_limit' = limit
    /\ UNCHANGED <<appended, tampered, swapped, execVars, pureVars, orchVars>>

\* verify_chain over read_events(cfg) after payload[key] of the event at
\* index was overwritten with another value, the stored hash left as
\* written.
VerifyTampered(c, index, key, value) ==
    /\ ensure_ledger_raises(c, fs) = ""
    /\ LET events == parse_lines(fs.lines)
       IN  /\ index \in 1..Len(events)
           /\ key \in DOMAIN events[index].payload
           /\ events[index].payload[key] # value
           /\ tampered' =
                 <<[index |-> index, key |-> key, value |-> value,
                    ok |-> verify_chain([events EXCEPT ![index].payload[key] = value])]>>
    /\ UNCHANGED <<fs, last_op, last_cfg, raised, appended, read_result, swapped,
                   read_limit, execVars, pureVars, orchVars>>

\* verify_chain over read_events(cfg) after the events at index and
\* index + 1 exchanged their positions.
VerifySwapped(c, index) ==
    /\ ensure_ledger_raises(c, fs) = ""
    /\ LET events == parse_lines(fs.lines)
       IN  /\ index \in 1..(Len(events) - 1)
           /\ swapped' =
                 <<[index |-> index,
                    ok |-> verify_chain([events EXCEPT ![index] = events[index + 1],
                                                       ![index + 1] = events[index]])]>>
    /\ UNCHANGED <<fs, last_op, last_cfg, raised, appended, read_result, tampered,
                   read_limit, execVars, pureVars, orchVars>>

\* No ledger call made yet.
LedgerIdle ==
    /\ last_op = "none"
    /\ last_cfg = DefaultConfig
    /\ raised = ""
    /\ appended = <<>>
    /\ read_result = <<>>
    /\ tampered = <<>>
    /\ swapped = <<>>
    /\ read_limit = -1

\* No executor call made yet.
ExecIdle ==
    /\ pc = "idle"
    /\ call = [entry |-> "none", cfg |-> DefaultConfig, plan |-> <<>>,
               ledger_required |-> FALSE, lin |-> <<>>,
               recording |-> FALSE, gate |-> "none"]
    /\ idx = 0
    /\ halted = FALSE
    /\ crash = NoCrash
    /\ steps = <<>>
    /\ calls = <<>>
    /\ artifacts = <<>>
    /\ last_artifact_hash = None
    /\ exc = <<>>

\* No exception mapped and no mutate_code call made yet.
OtherIdle ==
    /\ map_in = <<>>
    /\ map_out = <<>>
    /\ mut_in = <<>>
    /\ mut_out = <<>>

\* No admissibility or load_config call made yet.
PureIdle ==
    /\ OtherIdle
    /\ adm_in = <<>>
    /\ adm_out = <<>>
    /\ cfg_in = <<>>
    /\ cfg_out = <<>>

\* MetaOrchestrator.run not called yet. archetype is "" for an orchestrator
\* without archetype; actions is <<>> until an archetype's filter has
\* produced the action table, then <<the names in it>>.
OrchIdle ==
    /\ orch = [stage |-> "idle", cfg |-> DefaultConfig, plan |-> <<>>, lin |-> <<>>,
               result |-> <<>>, exc |-> <<>>, archetype |-> "", actions |-> <<>>]
    /\ boot_out = <<>>
    /\ ev_store = [present |-> FALSE, lineages |-> <<>>]
    /\ gate_out = <<>>
    /\ conc = <<>>
    /\ planner = <<>>

Init ==
    /\ fs \in [parent : {FALSE}, kind : {"absent", "dir"}, lines : {<<>>}]
    /\ LedgerIdle
    /\ ExecIdle
    /\ OrchIdle
    /\ PureIdle

Next ==
    \/ \E c \in LedgerCfgs, t \in EventTypes, p \in Payloads,
          ts \in Timestamps, a \in Actors, u \in Uuids :
          AppendEvent(c, t, p, ts, a, u)
    \/ \E c \in LedgerCfgs, limit \in -1..(MaxLedger + 1) : ReadEvents(c, limit)

Spec == Init /\ [][Next]_vars

(***************************************************************************)
(* Claims about the ledger, checked under Spec.                            *)
(***************************************************************************)
\* C1: after any sequence of successful single-writer appends to an empty
\* ledger, verify_chain(read_events(cfg)) is true: each stored hash is the
\* SHA-256 of the canonical JSON of the event without its hash, the first
\* prev_hash is null and each later prev_hash is the hash of the event
\* written just before it.
C1_ChainVerifies ==
    LET events == parse_lines(fs.lines)
    IN  /\ verify_chain(events)
        /\ \A i \in 1..Len(events) :
              /\ events[i].hash = sha256_hex(canonical_json(without(events[i], "hash")))
              /\ i = 1 => events[i].prev_hash = None
              /\ i > 1 => events[i].prev_hash = events[i - 1].hash

C1_Witness ==
    /\ Len(fs.lines) >= 2
    /\ last_op = "append_event"
    /\ raised = ""

\* C9: an append_event call with cfg.ledger_readonly raises LEDGER_READONLY
\* and leaves the ledger as it was: no event written, no file or directory
\* created.
C9_ReadonlyAppendRaises ==
    [][(last_op' = "append_event" /\ last_cfg'.ledger_readonly)
         => /\ raised' = "RuntimeError: LEDGER_READONLY"
            /\ fs' = fs
            /\ appended' = appended]_vars

C9_Witness ==
    /\ last_op = "append_event"
    /\ last_cfg.ledger_readonly
    /\ raised = "RuntimeError: LEDGER_READONLY"
    /\ Len(fs.lines) >= 1

\* Chains written by append_event under a writable config, and tamper checks
\* of them: one payload field of one event given another value.
NextTamper ==
    LET c == [DefaultConfig EXCEPT !.ledger_enabled = TRUE]
    IN  \/ \E t \in EventTypes, p \in Payloads \cup {[value |-> 2, version |-> 1]},
              ts \in Timestamps, a \in Actors, u \in Uuids :
              AppendEvent(c, t, p, ts, a, u)
        \/ \E index \in 1..MaxLedger, key \in {"value", "version"},
              value \in {1, 2, 999} : VerifyTampered(c, index, key, value)
        \/ \E index \in 1..MaxLedger : VerifySwapped(c, index)

SpecTamper == Init /\ [][NextTamper]_vars

\* C20: for any chain produced by append_event, changing the value of any
\* field inside the payload of any single event, the stored hash left as
\* written, makes verify_chain return false.
C20_TamperedPayloadFailsVerification ==
    tampered # <<>> => ~tampered[1].ok

C20_Witness ==
    /\ tampered # <<>>
    /\ tampered[1].index = 2
    /\ tampered[1].key = "value"
    /\ tampered[1].value = 999
    /\ ~tampered[1].ok
    /\ Len(fs.lines) = MaxLedger
    /\ verify_chain(parse_lines(fs.lines))

\* C21: for any chain of two or more events produced by append_event,
\* exchanging the positions of any two adjacent events makes verify_chain
\* return false.
C21_SwappedEventsFailVerification ==
    swapped # <<>> => ~swapped[1].ok

C21_Witness ==
    /\ swapped # <<>>
    /\ swapped[1].index = 2
    /\ ~swapped[1].ok
    /\ Len(fs.lines) = MaxLedger
    /\ verify_chain(parse_lines(fs.lines))

\* C38: read_events(cfg, limit=n) returns exactly the last min(n, total)
\* events of the ledger in append order for every n >= 0, in particular the
\* empty list for n = 0.
C38_ReadReturnsLastN ==
    (last_op = "read_events" /\ raised = "" /\ read_limit >= 0) =>
        LET events == parse_lines(fs.lines)
            total == Len(events)
            kept == IF read_limit < total THEN read_limit ELSE total
        IN  read_result = SubSeq(events, total - kept + 1, total)

\* C22: read_events(cfg) called without a limit returns exactly the events
\* the preceding append_event calls on that ledger returned, in append
\* order.
C22_ReadReturnsAppended ==
    (last_op = "read_events" /\ raised = "" /\ read_limit = -1) =>
        read_result = appended

C22_Witness ==
    /\ last_op = "read_events"
    /\ raised = ""
    /\ read_limit = -1
    /\ Len(read_result) = MaxLedger
    /\ read_result[1].type # read_result[2].type

(***************************************************************************)
(* Crash taxonomy and exception mapping.                                   *)
(***************************************************************************)
INTEGRITY_VIOLATION == "CRASH_0x01"
EVIDENCE_MISSING == "CRASH_0x02"
DETERMINISM_BREACH == "CRASH_0x03"
UNLOGGED_EXECUTION == "CRASH_0x04"

\* An exception: its class, its message (what str(exc) gives; the detail for
\* a KernelCrash) and, for a KernelCrash, its code.
Exc(cls, code, msg) == [cls |-> cls, code |-> code, msg |-> msg]

\* The classes an exception class derives from, itself included, among the
\* built-in classes the mapping tests; isinstance(exc, classes).
mro(cls) ==
    IF cls = "UnicodeDecodeError" THEN {cls, "ValueError"}
    ELSE IF cls \in {"PermissionError", "FileNotFoundError", "TimeoutError"}
    THEN {cls, "OSError"}
    ELSE IF cls \in {"KeyError", "IndexError"} THEN {cls, "LookupError"}
    ELSE {cls}
isinstance(e, classes) == mro(e.cls) \cap classes # {}

\* _exc_detail: the message, or the class name when the message is blank.
_exc_detail(e) == IF e.msg = "" THEN e.cls ELSE e.msg

\* map_exception: the KernelCrash (code, detail) an exception maps to.
map_exception_flat(e) ==
    IF e.cls = "KernelCrash" THEN [code |-> e.code, detail |-> e.msg]
    ELSE [code |-> DETERMINISM_BREACH, detail |-> _exc_detail(e)]

map_exception(e) ==
    IF e.cls = "KernelCrash" THEN [code |-> e.code, detail |-> e.msg]
    ELSE IF isinstance(e, {"ValueError", "TypeError", "PermissionError"})
         THEN [code |-> INTEGRITY_VIOLATION, detail |-> _exc_detail(e)]
    ELSE IF isinstance(e, {"KeyError", "FileNotFoundError"})
         THEN [code |-> EVIDENCE_MISSING, detail |-> _exc_detail(e)]
    ELSE IF isinstance(e, {"TimeoutError"})
         THEN [code |-> DETERMINISM_BREACH, detail |-> _exc_detail(e)]
    ELSE [code |-> DETERMINISM_BREACH, detail |-> _exc_detail(e)]

(***************************************************************************)
(* The three-stage executor.                                               *)
(***************************************************************************)
ARTIFACT_INLINE_MAX_BYTES == 65536

\* An ActionSpec: id, action and effects (params, preconditions, cost_hint
\* are left at {}, () and None).
ActionSpec(id, action, effects) == [id |-> id, action |-> action, effects |-> effects]

\* ActionSpec.to_dict
spec_to_dict(spec) ==
    [id |-> spec.id, action |-> spec.action, params |-> <<>>,
     preconditions |-> <<>>, effects |-> spec.effects, cost_hint |-> None]

\* The action table handed to the executor, and the plan steps drawn on.
ActionNames == {"demo", "mutate_code"}

\* The names in the action table execute_and_record is called with: the one
\* an archetype's filter produced, else the table above.
action_table == IF orch.actions = <<>> THEN ActionNames ELSE orch.actions[1]
PlanSpecs ==
    { ActionSpec("a", "demo", <<>>), ActionSpec("b", "demo", <<"mutation">>),
      ActionSpec("b", "absent", <<>>), ActionSpec("c", "mutate_code", <<>>) }
Plans == UNION {[1..n -> PlanSpecs] : n \in 0..MaxPlan}

\* What a stage function may do: return, or raise one of these.
StageExceptions ==
    { Exc("ValueError", "", "bad params"), Exc("KeyError", "", ""),
      Exc("TimeoutError", "", ""), Exc("KernelCrash", UNLOGGED_EXECUTION, "unlogged") }
Returned == Exc("", "", "")
StageResults == {Returned} \cup StageExceptions
\* The byte length of the canonical JSON of what postcheck returns; 0 is None.
OutputSizes == {0, 2, 65537}

\* StageLog.to_dict / StepLog.to_dict: None fields are left out.
stage_to_dict(stage) ==
    [k \in {"stage", "status"}
        \cup (IF stage.output # 0 THEN {"output"} ELSE {})
        \cup (IF stage.code # "" THEN {"code"} ELSE {})
        \cup (IF stage.detail # "" THEN {"detail"} ELSE {}) |-> stage[k]]

step_to_dict(step) ==
    [k \in {"id", "action", "status", "stages"}
        \cup (IF step.output # 0 THEN {"output"} ELSE {})
        \cup (IF step.code # "" THEN {"code"} ELSE {})
        \cup (IF step.detail # "" THEN {"detail"} ELSE {}) |->
        IF k = "stages" THEN [i \in 1..Len(step.stages) |-> stage_to_dict(step.stages[i])]
        ELSE step[k]]

\* _stage: the StageLog of a stage that returned, or that crashed.
_stage(stage, status, output, crash_) ==
    [stage |-> stage, status |-> status, output |-> output,
     code |-> crash_.code, detail |-> crash_.detail]

StepLog(spec, status, stages, output, code, detail) ==
    [id |-> spec.id, action |-> spec.action, status |-> status, stages |-> stages,
     output |-> output, code |-> code, detail |-> detail]

NoKernelCrash == [code |-> "", detail |-> ""]

\* _execute_step: the StepLog, given what validate, run and postcheck do and
\* the size of what postcheck returns. Stage outputs other than the last are 1
\* (some non-null value).
_execute_step(spec, pre, run, post, out) ==
    IF pre # Returned
    THEN LET c == map_exception(pre)
         IN  StepLog(spec, "crash", <<_stage("precheck", "crash", 0, c)>>, 0, c.code, c.detail)
    ELSE IF run # Returned
    THEN LET c == map_exception(run)
         IN  StepLog(spec, "crash",
                     <<_stage("precheck", "ok", 1, NoKernelCrash),
                       _stage("execute", "crash", 0, c)>>, 0, c.code, c.detail)
    ELSE IF post # Returned
    THEN LET c == map_exception(post)
         IN  StepLog(spec, "crash",
                     <<_stage("precheck", "ok", 1, NoKernelCrash),
                       _stage("execute", "ok", 1, NoKernelCrash),
                       _stage("postcheck", "crash", 0, c)>>, 0, c.code, c.detail)
    ELSE StepLog(spec, "ok",
                 <<_stage("precheck", "ok", 1, NoKernelCrash),
                   _stage("execute", "ok", 1, NoKernelCrash),
                   _stage("postcheck", "ok", out, NoKernelCrash)>>, out, "", "")

stage_calls_all(i, pre, run, post) ==
    <<[step |-> i, stage |-> "validate"], [step |-> i, stage |-> "run"],
      [step |-> i, stage |-> "postcheck"]>>

\* The stage functions _execute_step invokes for step i.
stage_calls(i, pre, run, post) ==
    <<[step |-> i, stage |-> "validate"]>>
    \o (IF pre = Returned THEN <<[step |-> i, stage |-> "run"]>> ELSE <<>>)
    \o (IF pre = Returned /\ run = Returned
        THEN <<[step |-> i, stage |-> "postcheck"]>> ELSE <<>>)

\* _artifact_uri: the output inline up to ARTIFACT_INLINE_MAX_BYTES, else its
\* digest and a truncation flag.
_artifact_uri(output) ==
    IF output > ARTIFACT_INLINE_MAX_BYTES
    THEN [scheme |-> "data:application/json,", inline |-> 0,
          digest |-> canonical_json([hash |-> sha256_hex(output), truncated |-> TRUE])]
    ELSE [scheme |-> "data:application/json,", inline |-> output, digest |-> <<>>]

artifact_name(spec) == <<spec.id, ":", spec.action, ":result">>

\* ArtifactRegistry.register raises ValueError on a name already registered.
register_raises(registry, name) ==
    \E i \in 1..Len(registry) : registry[i].name = name

\* compute_checksum applied to a str, as _payload_with_content_hash does.
compute_checksum_str(s) == sha256_hex(canonical_json_str(s))

\* _payload_with_content_hash
_payload_with_content_hash(payload) ==
    LET base_without_hash == without(payload, "content_hash")
        canonical_payload == canonical_json(base_without_hash)
    IN  [k \in DOMAIN payload \cup {"content_hash"} |->
            IF k = "content_hash" THEN compute_checksum_str(canonical_payload)
            ELSE payload[k]]

(***************************************************************************)
(* Preconditions of execute_plan and execute_and_record.                   *)
(***************************************************************************)
CONFIG_SCHEMA_VERSION == "1"

\* AdaadConfig.validate: the exception it raises, <<>> when it returns.
\* Paths are relative and stay under home, so the sandbox checks pass.
\* planner_max_seconds is in hundredths of a second.
validate(c) ==
    IF c.config_schema_version # CONFIG_SCHEMA_VERSION
    THEN <<"ValueError", "config_schema_version mismatch">>
    ELSE IF c.log_path = "" THEN <<"ValueError", "log_path must be set">>
    ELSE IF ~(1 <= c.planner_max_steps /\ c.planner_max_steps <= 10000)
    THEN <<"ValueError", "planner_max_steps must be 1..10000">>
    ELSE IF ~(1 <= c.planner_max_seconds /\ c.planner_max_seconds <= 30000)
    THEN <<"ValueError", "planner_max_seconds must be 0.01..300">>
    ELSE IF c.mutation_policy = "evolutionary" /\ c.readiness_gate_sig = None
    THEN <<"ValueError", "EVOLUTIONARY mutation_policy requires readiness_gate_sig">>
    ELSE IF c.ledger_enabled /\ c.ledger_dir = ""
    THEN <<"ValueError", "ledger_dir must be set when ledger logging is enabled">>
    ELSE IF c.ledger_enabled /\ c.ledger_filename = ""
    THEN <<"ValueError", "ledger_filename must be set when ledger logging is enabled">>
    ELSE IF c.ledger_enabled /\ c.ledger_schema_version = ""
    THEN <<"ValueError", "ledger_schema_version must be set when ledger logging is enabled">>
    ELSE IF c.emergency_halt /\ c.mutation_policy # "locked"
    THEN <<"ValueError", "emergency_halt requires mutation_policy=LOCKED">>
    ELSE IF c.emergency_halt /\ ~c.ledger_readonly
    THEN <<"ValueError", "emergency_halt requires ledger_readonly=True">>
    ELSE IF c.emergency_halt /\ c.agents_enabled
    THEN <<"ValueError", "emergency_halt requires agents_enabled=False">>
    ELSE <<>>

\* AdaadConfig.mutation_enabled
mutation_enabled(c) == ~c.emergency_halt /\ c.mutation_policy # "locked"

\* The readiness signature that verifies, and one that does not.
ValidReadinessSig == <<"hmac", "env">>
ForgedReadinessSig == <<"hmac", "forged">>

\* enforce_readiness_gate: (cfg, ok, reason). An EVOLUTIONARY config whose
\* readiness_gate_sig is missing or does not verify is locked and carries
\* the reason as freeze_reason; any other config passes unchanged.
enforce_readiness_gate(c) ==
    IF c.mutation_policy # "evolutionary" THEN [cfg |-> c, ok |-> TRUE, reason |-> ""]
    ELSE IF c.readiness_gate_sig = None
    THEN [cfg |-> [c EXCEPT !.mutation_policy = "locked",
                            !.freeze_reason = "READINESS_GATE_SIGNATURE_MISSING"],
          ok |-> FALSE, reason |-> "READINESS_GATE_SIGNATURE_MISSING"]
    ELSE IF c.readiness_gate_sig # ValidReadinessSig
    THEN [cfg |-> [c EXCEPT !.mutation_policy = "locked",
                            !.freeze_reason = "READINESS_GATE_SIGNATURE_INVALID"],
          ok |-> FALSE, reason |-> "READINESS_GATE_SIGNATURE_INVALID"]
    ELSE [cfg |-> c, ok |-> TRUE, reason |-> ""]

\* hash_object
hash_object(obj) == sha256_hex(canonical_json(obj))

\* A lineage the evidence store knows and one it does not.
KnownLineage == hash_object([ancestor |-> "root"])
UnknownLineage == hash_object([ancestor |-> "other"])

\* Evidence stores: none, empty, one holding the known lineage, and one whose
\* node under that key was altered after it was added.
NoStore == [present |-> FALSE, lineages |-> <<>>]
EmptyStore == [present |-> TRUE, lineages |-> <<>>]
HonestStore ==
    [present |-> TRUE,
     lineages |-> <<[key |-> KnownLineage,
                     node |-> [ancestor |-> "root", hash |-> KnownLineage]]>>]
TamperedStore ==
    [present |-> TRUE,
     lineages |-> <<[key |-> KnownLineage,
                     node |-> [ancestor |-> "evil", hash |-> KnownLineage]]>>]

resolve_lineage_unkeyed(store, lineage_hash) ==
    LET hits == SelectSeq(store.lineages, LAMBDA e : e.key = lineage_hash)
    IN  IF hits = <<>> THEN <<>>
        ELSE LET node == hits[1].node
                 expected == hash_object(without(node, "hash"))
             IN  IF node.hash # expected THEN <<>>
                 ELSE <<node>>

\* EvidenceStore.resolve_lineage: <<node>>, or <<>> for None.
resolve_lineage(store, lineage_hash) ==
    LET hits == SelectSeq(store.lineages, LAMBDA e : e.key = lineage_hash)
    IN  IF hits = <<>> THEN <<>>
        ELSE LET node == hits[1].node
                 expected == hash_object(without(node, "hash"))
             IN  IF node.hash # expected \/ lineage_hash # expected THEN <<>>
                 ELSE <<node>>

LineageGateResult(ok, reason, lineage_hash) ==
    [ok |-> ok, reason |-> reason, lineage_hash |-> lineage_hash]

\* A lineage hash that is a string with nothing but white space in it.
BlankLineages == {<<"str", "">>, <<"str", "  ">>}

\* not str(lineage_hash).strip()
blank(lineage_hash) ==
    /\ lineage_hash # None
    /\ lineage_hash[1] = "str"
    /\ lineage_hash \in BlankLineages

\* cryovant_lineage_gate
cryovant_lineage_gate(evidence_store, lineage_hash) ==
    IF lineage_hash = None \/ blank(lineage_hash)
    THEN LineageGateResult(FALSE, "cryovant_lineage_missing", None)
    ELSE IF ~evidence_store.present
    THEN LineageGateResult(FALSE, "cryovant_evidence_store_missing", lineage_hash)
    ELSE LET lineage == resolve_lineage(evidence_store, lineage_hash)
         IN  IF lineage = <<>>
             THEN LineageGateResult(FALSE, "cryovant_lineage_unknown", lineage_hash)
             ELSE IF hash_object(without(lineage[1], "hash")) # lineage_hash
             THEN LineageGateResult(FALSE, "cryovant_lineage_hash_mismatch", lineage_hash)
             ELSE LineageGateResult(TRUE, "", lineage_hash)

\* _requires_lineage_gate
_requires_lineage_gate(plan) ==
    \E i \in 1..Len(plan) :
        \/ plan[i].action \in {"mutate_code", "mutate", "evolve", "autopromote",
                               "autonomous_mutation"}
        \/ \E j \in 1..Len(plan[i].effects) :
              plan[i].effects[j] \in {"mutation", "evolution"}

\* The lineage arguments of a call: evidence_store, lineage_hash and
\* gate_result (<<>> for None, else <<result>>).
LineageInputs ==
    { [evidence_store |-> NoStore, lineage_hash |-> None, gate_result |-> <<>>],
      [evidence_store |-> HonestStore, lineage_hash |-> None, gate_result |-> <<>>],
      [evidence_store |-> HonestStore, lineage_hash |-> KnownLineage, gate_result |-> <<>>],
      [evidence_store |-> HonestStore, lineage_hash |-> UnknownLineage, gate_result |-> <<>>],
      [evidence_store |-> TamperedStore, lineage_hash |-> KnownLineage, gate_result |-> <<>>],
      [evidence_store |-> EmptyStore, lineage_hash |-> KnownLineage, gate_result |-> <<>>],
      [evidence_store |-> HonestStore, lineage_hash |-> KnownLineage,
       gate_result |-> <<LineageGateResult(TRUE, "", KnownLineage)>>],
      [evidence_store |-> HonestStore, lineage_hash |-> KnownLineage,
       gate_result |-> <<LineageGateResult(TRUE, "", UnknownLineage)>>],
      [evidence_store |-> NoStore, lineage_hash |-> KnownLineage,
       gate_result |-> <<LineageGateResult(TRUE, "", KnownLineage)>>],
      [evidence_store |-> EmptyStore, lineage_hash |-> KnownLineage,
       gate_result |-> <<LineageGateResult(TRUE, "", KnownLineage)>>],
      [evidence_store |-> HonestStore, lineage_hash |-> None,
       gate_result |-> <<LineageGateResult(TRUE, "", KnownLineage)>>],
      [evidence_store |-> HonestStore, lineage_hash |-> KnownLineage,
       gate_result |-> <<LineageGateResult(FALSE, "cryovant_lineage_unknown", KnownLineage)>>] }

_enforce_lineage_gate_unbacked(plan, c, lin) ==
    IF c.mutation_policy = "evolutionary" THEN <<>>
    ELSE IF ~(mutation_enabled(c) /\ _requires_lineage_gate(plan)) THEN <<>>
    ELSE LET expected_lineage ==
                 IF lin.lineage_hash # None THEN lin.lineage_hash ELSE c.readiness_gate_sig
             given == lin.gate_result # <<>>
             gate == IF given THEN lin.gate_result[1]
                     ELSE cryovant_lineage_gate(lin.evidence_store, expected_lineage)
         IN  IF given /\ gate.lineage_hash # expected_lineage
             THEN <<"RuntimeError", "Cryovant gate result not bound to requested lineage">>
             ELSE IF ~gate.ok
             THEN <<"RuntimeError", "Cryovant lineage gate failed: ", gate.reason>>
             ELSE <<>>

\* _enforce_lineage_gate: the exception it raises, <<>> when it returns.
_enforce_lineage_gate(plan, c, lin) ==
    IF c.mutation_policy = "evolutionary" THEN <<>>
    ELSE IF ~(mutation_enabled(c) /\ _requires_lineage_gate(plan)) THEN <<>>
    ELSE LET expected_lineage ==
                 IF lin.lineage_hash # None THEN lin.lineage_hash ELSE c.readiness_gate_sig
             given == lin.gate_result # <<>>
             gate == IF given THEN lin.gate_result[1]
                     ELSE cryovant_lineage_gate(lin.evidence_store, expected_lineage)
         IN  IF given /\ gate.lineage_hash # expected_lineage
             THEN <<"RuntimeError", "Cryovant gate result not bound to requested lineage">>
             ELSE IF given /\ (~lin.evidence_store.present
                               \/ resolve_lineage(lin.evidence_store, expected_lineage) = <<>>)
             THEN <<"RuntimeError", "Cryovant gate result lacks evidence backing">>
             ELSE IF ~gate.ok
             THEN <<"RuntimeError", "Cryovant lineage gate failed: ", gate.reason>>
             ELSE <<>>

(***************************************************************************)
(* execute_plan, execute_and_record and the loop of _run_plan.             *)
(***************************************************************************)
Entries == {"execute_plan", "execute_and_record"}

\* The configs the executor is called with.
ExecCfgs ==
    { DefaultConfig,
      [DefaultConfig EXCEPT !.ledger_enabled = TRUE],
      [DefaultConfig EXCEPT !.ledger_enabled = TRUE, !.ledger_readonly = TRUE],
      [DefaultConfig EXCEPT !.ledger_enabled = TRUE, !.ledger_dir = ""],
      [DefaultConfig EXCEPT !.ledger_enabled = TRUE, !.mutation_policy = "sandboxed",
                            !.readiness_gate_sig = KnownLineage],
      [DefaultConfig EXCEPT !.ledger_enabled = TRUE, !.mutation_policy = "evolutionary",
                            !.readiness_gate_sig = ValidReadinessSig],
      [DefaultConfig EXCEPT !.mutation_policy = "evolutionary",
                            !.readiness_gate_sig = ForgedReadinessSig],
      [DefaultConfig EXCEPT !.mutation_policy = "evolutionary"],
      [DefaultConfig EXCEPT !.ledger_enabled = TRUE, !.ledger_readonly = TRUE,
                            !.emergency_halt = TRUE, !.agents_enabled = FALSE,
                            !.freeze_reason = "EMERGENCY_HALT"] }

\* KernelContext.build: the run id (uuid4), the config digest, the workspace.
RunId == "run-1"
config_hash(c) == sha256_hex(c)
workspace_to_dict(c) ==
    [home |-> "/home", actions_dir |-> <<"/home", c.actions_dir>>,
     log_path |-> <<"/home", c.log_path>>,
     ledger_path |-> IF c.ledger_enabled /\ c.ledger_filename # ""
                     THEN <<"/home", c.ledger_dir, c.ledger_filename>> ELSE None]

\* ArtifactRegistry.to_dict: name -> uri.
artifacts_to_dict(registry) ==
    [n \in {registry[i].name : i \in 1..Len(registry)} |->
        registry[CHOOSE i \in 1..Len(registry) : registry[i].name = n].uri]

\* The ExecutionLog _run_plan returns, as ExecutionLog.to_dict gives it.
log_to_dict(c, steps_, registry, crash_) ==
    LET data ==
            [ok |-> crash_.code = "",
             status |-> IF crash_.code = "" THEN "ok" ELSE "crash",
             steps |-> [i \in 1..Len(steps_) |-> step_to_dict(steps_[i])],
             run_id |-> RunId, config_hash |-> config_hash(c),
             artifacts |-> artifacts_to_dict(registry),
             workspace |-> workspace_to_dict(c)]
    IN  IF crash_.code = "" THEN data
        ELSE [k \in DOMAIN data \cup {"crash"} |->
                 IF k = "crash" THEN crash_ ELSE data[k]]

start_raises_writable(entry, c, plan, ledger_required, lin, f) ==
    LET r == enforce_readiness_gate(c)
    IN  IF validate(c) # <<>> THEN validate(c)
        ELSE IF c.mutation_policy = "evolutionary" /\ ~r.ok
        THEN <<"RuntimeError", "Readiness gate failed: ", r.reason>>
        ELSE IF validate(r.cfg) # <<>> THEN validate(r.cfg)
        ELSE IF _enforce_lineage_gate(plan, r.cfg, lin) # <<>>
        THEN _enforce_lineage_gate(plan, r.cfg, lin)
        ELSE IF entry = "execute_plan" THEN <<>>
        ELSE IF ledger_required /\ ~r.cfg.ledger_enabled
        THEN <<"RuntimeError", "ledger_required=True but ledger is disabled">>
        ELSE IF ~r.cfg.ledger_enabled THEN <<>>
        ELSE IF ensure_ledger_raises(r.cfg, f) # "" THEN <<ensure_ledger_raises(r.cfg, f)>>
        ELSE <<>>

\* The exception execute_plan / execute_and_record raise before _run_plan is
\* entered, <<>> when none. f is the ledger path as the call finds it.
start_raises(entry, c, plan, ledger_required, lin, f) ==
    LET r == enforce_readiness_gate(c)
    IN  IF validate(c) # <<>> THEN validate(c)
        ELSE IF c.mutation_policy = "evolutionary" /\ ~r.ok
        THEN <<"RuntimeError", "Readiness gate failed: ", r.reason>>
        ELSE IF validate(r.cfg) # <<>> THEN validate(r.cfg)
        ELSE IF _enforce_lineage_gate(plan, r.cfg, lin) # <<>>
        THEN _enforce_lineage_gate(plan, r.cfg, lin)
        ELSE IF entry = "execute_plan" THEN <<>>
        ELSE IF ledger_required /\ ~r.cfg.ledger_enabled
        THEN <<"RuntimeError", "ledger_required=True but ledger is disabled">>
        ELSE IF ~r.cfg.ledger_enabled THEN <<>>
        ELSE IF r.cfg.ledger_readonly THEN <<"RuntimeError", "ledger is read-only">>
        ELSE IF ensure_ledger_raises(r.cfg, f) # "" THEN <<ensure_ledger_raises(r.cfg, f)>>
        ELSE <<>>

\* _append_hashed_event: the ledger path after the append.
_append_hashed_event(c, f, event_type, payload) ==
    append_fs(c, f, event_type, _payload_with_content_hash(payload),
              "2024-01-01T00:00:00Z", "executor", "u1")

start_payload(c, plan) ==
    [run_id |-> RunId, config_hash |-> config_hash(c),
     plan |-> [i \in 1..Len(plan) |-> spec_to_dict(plan[i])]]

step_payload(step) ==
    [run_id |-> RunId, action_id |-> step.id, step |-> step_to_dict(step)]

artifact_payload_unchained(spec, name, uri, parent_hash) ==
    [run_id |-> RunId, action_id |-> spec.id,
     artifact |-> [name |-> name, uri |-> uri], parent_hash |-> None]

artifact_payload(spec, name, uri, parent_hash) ==
    [run_id |-> RunId, action_id |-> spec.id,
     artifact |-> [name |-> name, uri |-> uri], parent_hash |-> parent_hash]

end_payload(log) == [run_id |-> RunId, log |-> log]

on_step_unrecorded(f, step) == f

\* _on_step, when the run is recorded.
on_step(f, step) ==
    IF call.recording
    THEN _append_hashed_event(call.cfg, f, "execution_step", step_payload(step))
    ELSE f

\* The finally block of execute_and_record.
on_end(f, log) ==
    IF call.recording
    THEN _append_hashed_event(call.cfg, f, "execution_run_end", end_payload(log))
    ELSE f

\* execute_plan / execute_and_record up to the entry of _run_plan. The call
\* keeps the arguments it reads: ledger_required is a parameter of
\* execute_and_record only, and the lineage arguments are read only when the
\* gate is required.
ExecStart(entry, c, plan, ledger_required, lin) ==
    /\ pc = "idle"
    /\ LET cfg == enforce_readiness_gate(c).cfg
           e == start_raises(entry, c, plan, ledger_required, lin, fs)
           recording == e = <<>> /\ entry = "execute_and_record" /\ cfg.ledger_enabled
           gate_required == /\ cfg.mutation_policy # "evolutionary"
                            /\ mutation_enabled(cfg)
                            /\ _requires_lineage_gate(plan)
       IN  /\ call' = [entry |-> entry, cfg |-> cfg, plan |-> plan,
                       ledger_required |-> entry = "execute_and_record" /\ ledger_required,
                       lin |-> IF gate_required THEN <<lin>> ELSE <<>>,
                       recording |-> recording,
                       gate |-> IF ~gate_required THEN "not_required"
                                ELSE IF _enforce_lineage_gate(plan, cfg, lin) = <<>>
                                THEN "passed" ELSE "failed"]
           /\ exc' = e
           /\ pc' = IF e = <<>> THEN "running" ELSE "raised"
           /\ fs' = IF recording
                    THEN _append_hashed_event(cfg, ensure_ledger_fs(cfg, fs),
                                              "execution_run_start", start_payload(cfg, plan))
                    ELSE IF e = <<ensure_ledger_raises(cfg, fs)>>
                    THEN ensure_ledger_fs(cfg, fs)
                    ELSE fs
    /\ UNCHANGED <<idx, halted, crash, steps, calls, artifacts, last_artifact_hash,
                   ledgerVars, pureVars, orchVars>>

\* The detail of the KernelCrash _lookup_action raises for a missing action.
unknown_action_detail ==
    [n \in {"absent", "demo", "scan_risks", "mutate_code", "generate_patch", "evolve"} |->
        CASE n = "absent" -> "Unknown action: absent"
          [] n = "demo" -> "Unknown action: demo"
          [] n = "scan_risks" -> "Unknown action: scan_risks"
          [] n = "mutate_code" -> "Unknown action: mutate_code"
          [] n = "generate_patch" -> "Unknown action: generate_patch"
          [] n = "evolve" -> "Unknown action: evolve"]

\* The step the loop of _run_plan is at.
current_spec == call.plan[idx + 1]
in_loop == pc = "running" /\ idx < Len(call.plan)

\* crash_stage: the first stage of the step whose status is crash.
crash_stage_of(step) ==
    SelectSeq(step.stages, LAMBDA st : st.status = "crash")[1].stage

\* Loop body, halted: the step is logged as skipped and nothing is invoked.
StepSkipped ==
    /\ in_loop
    /\ halted
    /\ LET step == StepLog(current_spec, "skipped",
                           <<[stage |-> "precheck", status |-> "skipped", output |-> 0,
                              code |-> "", detail |-> "halted_after_crash"]>>,
                           0, "", "skipped_after_crash")
       IN  /\ steps' = Append(steps, step)
           /\ fs' = on_step(fs, step)
    /\ idx' = idx + 1
    /\ UNCHANGED <<pc, call, halted, crash, calls, artifacts, last_artifact_hash, exc,
                   ledgerVars, pureVars, orchVars>>

\* Loop body, _lookup_action raises: the step crashes at precheck.
StepUnknownAction ==
    /\ in_loop
    /\ ~halted
    /\ current_spec.action \notin action_table
    /\ LET mapped == map_exception(Exc("KernelCrash", EVIDENCE_MISSING,
                                       unknown_action_detail[current_spec.action]))
           step == StepLog(current_spec, "crash",
                           <<_stage("precheck", "crash", 0, mapped)>>,
                           0, mapped.code, mapped.detail)
       IN  /\ steps' = Append(steps, step)
           /\ crash' = [code |-> mapped.code, detail |-> mapped.detail,
                        stage |-> "precheck", step |-> current_spec.id]
           /\ fs' = on_step(fs, step)
    /\ halted' = TRUE
    /\ idx' = idx + 1
    /\ UNCHANGED <<pc, call, calls, artifacts, last_artifact_hash, exc, ledgerVars, pureVars, orchVars>>

\* What the three stages of one step may do, as <<validate, run, postcheck,
\* output>>: a stage after a raising one is not reached, and only a returning
\* postcheck has an output.
StepOutcomes ==
    {<<e, Returned, Returned, 0>> : e \in StageExceptions}
    \cup {<<Returned, e, Returned, 0>> : e \in StageExceptions}
    \cup {<<Returned, Returned, e, 0>> : e \in StageExceptions}
    \cup {<<Returned, Returned, Returned, out>> : out \in OutputSizes}

halts_never(step) == FALSE

\* Whether the step halts the run (its status is not ok).
halts(step) == step.status # "ok"

\* Whether the step yields an artifact (status ok and an output).
has_artifact(step) == step.status = "ok" /\ step.output # 0

\* Loop body, the action is found: _execute_step, then the artifact, the
\* step log and the callbacks.
StepExecuted(pre, run, post, out) ==
    /\ in_loop
    /\ ~halted
    /\ current_spec.action \in action_table
    /\ LET spec == current_spec
           step == _execute_step(spec, pre, run, post, out)
           name == artifact_name(spec)
           uri == _artifact_uri(step.output)
           event_payload == _payload_with_content_hash(
                                artifact_payload(spec, name, uri, last_artifact_hash))
       IN  /\ ~(has_artifact(step) /\ register_raises(artifacts, name))
           /\ calls' = calls \o stage_calls(idx + 1, pre, run, post)
           /\ artifacts' = IF has_artifact(step)
                           THEN Append(artifacts, [name |-> name, uri |-> uri])
                           ELSE artifacts
           /\ steps' = Append(steps, step)
           /\ fs' = IF has_artifact(step) /\ call.recording
                    THEN _append_hashed_event(call.cfg, on_step(fs, step), "execution_artifact",
                                              artifact_payload(spec, name, uri, last_artifact_hash))
                    ELSE on_step(fs, step)
           /\ last_artifact_hash' = IF has_artifact(step) /\ call.recording
                                    THEN event_payload.content_hash
                                    ELSE last_artifact_hash
           /\ crash' = IF halts(step)
                       THEN [code |-> step.code, detail |-> step.detail,
                             stage |-> crash_stage_of(step), step |-> spec.id]
                       ELSE crash
           /\ halted' = halts(step)
    /\ idx' = idx + 1
    /\ UNCHANGED <<pc, call, exc, ledgerVars, pureVars, orchVars>>

\* Loop body, the action is found and its artifact name is already in the
\* registry: register_artifact raises ValueError out of _run_plan, before the
\* step is logged; the finally block of execute_and_record writes the run end.
StepRegisterRaises(out) ==
    /\ in_loop
    /\ ~halted
    /\ current_spec.action \in action_table
    /\ LET spec == current_spec
           step == _execute_step(spec, Returned, Returned, Returned, out)
       IN  /\ has_artifact(step)
           /\ register_raises(artifacts, artifact_name(spec))
           /\ calls' = calls \o stage_calls(idx + 1, Returned, Returned, Returned)
    /\ pc' = "raised"
    /\ exc' = <<"ValueError", "artifact already registered">>
    /\ fs' = on_end(fs, [ok |-> FALSE, status |-> "crash"])
    /\ UNCHANGED <<call, idx, halted, crash, steps, artifacts, last_artifact_hash,
                   ledgerVars, pureVars, orchVars>>

\* The loop is over: _run_plan returns its ExecutionLog, and the finally block
\* of execute_and_record writes the run end.
ExecReturn ==
    /\ pc = "running"
    /\ idx = Len(call.plan)
    /\ pc' = "returned"
    /\ fs' = on_end(fs, log_to_dict(call.cfg, steps, artifacts, crash))
    /\ UNCHANGED <<call, idx, halted, crash, steps, calls, artifacts,
                   last_artifact_hash, exc, ledgerVars, pureVars, orchVars>>

\* The ExecutionLog of a call that returned.
execution_log == log_to_dict(call.cfg, steps, artifacts, crash)

NextExec ==
    \/ /\ pc = "idle"
       /\ \E entry \in Entries, c \in ExecCfgs, plan \in Plans,
             ledger_required \in BOOLEAN, lin \in LineageInputs :
             ExecStart(entry, c, plan, ledger_required, lin)
    \/ StepSkipped
    \/ StepUnknownAction
    \/ /\ in_loop
       /\ \E o \in StepOutcomes : StepExecuted(o[1], o[2], o[3], o[4])
    \/ /\ in_loop
       /\ \E out \in OutputSizes : StepRegisterRaises(out)
    \/ ExecReturn

SpecExec == Init /\ [][NextExec]_vars

(***************************************************************************)
(* Claims about the executor.                                              *)
(***************************************************************************)
\* The index of the first crashed step of the log so far, 0 when none.
first_crash ==
    IF \E i \in 1..Len(steps) : steps[i].status = "crash"
    THEN CHOOSE i \in 1..Len(steps) :
            /\ steps[i].status = "crash"
            /\ \A j \in 1..(i - 1) : steps[j].status # "crash"
    ELSE 0

\* The ledger events of one type.
events_of_type(t) == SelectSeq(parse_lines(fs.lines), LAMBDA e : e.type = t)

\* C2: once a step has crashed, no validate, run or postcheck of a later step
\* is invoked, every later step is logged with status skipped and detail
\* skipped_after_crash, the call returns (it does not raise), and the log it
\* returns covers every plan step and has status crash with the crash code of
\* that first crashed step.
C2_FirstCrashHalts ==
    first_crash # 0 =>
        /\ \A i \in 1..Len(calls) : calls[i].step <= first_crash
        /\ \A i \in (first_crash + 1)..Len(steps) :
              /\ steps[i].status = "skipped"
              /\ steps[i].detail = "skipped_after_crash"
        /\ pc \in {"running", "returned"}
        /\ pc = "returned" =>
              /\ Len(steps) = Len(call.plan)
              /\ execution_log.ok = FALSE
              /\ execution_log.status = "crash"
              /\ execution_log.crash.code = steps[first_crash].code
              /\ execution_log.crash.step = steps[first_crash].id

\* A returned run whose first step crashed in its run stage and whose second
\* step was skipped.
C2_Witness ==
    /\ pc = "returned"
    /\ Len(steps) >= 2
    /\ first_crash = 1
    /\ Len(steps[1].stages) = 2
    /\ steps[2].status = "skipped"

\* C10: a recorded run that has ended left exactly one execution_run_start,
\* exactly one execution_run_end and one execution_step event per plan step.
C10_OneStepEventPerPlanStep ==
    (call.recording /\ pc \in {"returned", "raised"}) =>
        /\ Len(events_of_type("execution_run_start")) = 1
        /\ Len(events_of_type("execution_run_end")) = 1
        /\ Len(events_of_type("execution_step")) = Len(call.plan)

\* The events of the ledger, in file order.
run_events == parse_lines(fs.lines)

\* The number of execution_step events among the first n events.
steps_before(n) ==
    Len(SelectSeq(SubSeq(run_events, 1, n), LAMBDA e : e.type = "execution_step"))

\* C11: in the ledger segment of one recorded run, execution_run_start is the
\* first event and the only one of its type, execution_run_end is written only
\* when the call ends and is then the last event, the k-th execution_step
\* event is that of the k-th plan step, and every execution_artifact event
\* directly follows the execution_step event of the same step, so it comes
\* after its own step event and before any event of a later step.
C11_RunEventOrder ==
    call.recording =>
        LET n == Len(run_events)
            step_events == events_of_type("execution_step")
        IN  /\ n >= 1
            /\ run_events[1].type = "execution_run_start"
            /\ \A i \in 2..n : run_events[i].type # "execution_run_start"
            /\ \A i \in 1..n :
                  run_events[i].type = "execution_run_end" =>
                      i = n /\ pc \in {"returned", "raised"}
            /\ pc \in {"returned", "raised"} => run_events[n].type = "execution_run_end"
            /\ Len(step_events) <= Len(call.plan)
            /\ \A k \in 1..Len(step_events) :
                  /\ step_events[k].payload.action_id = call.plan[k].id
                  /\ step_events[k].payload.step.action = call.plan[k].action
            /\ \A i \in 1..n :
                  run_events[i].type = "execution_artifact" =>
                      /\ i > 1
                      /\ run_events[i - 1].type = "execution_step"
                      /\ run_events[i - 1].payload.action_id = run_events[i].payload.action_id

\* A returned two-step run in which both steps left an artifact: start, step,
\* artifact, step, artifact, end.
C11_Witness ==
    /\ call.recording
    /\ pc = "returned"
    /\ Len(run_events) = 6
    /\ Len(events_of_type("execution_artifact")) = 2
    /\ call.plan[1].id # call.plan[2].id

\* C12: within one recorded run the first execution_artifact event has
\* parent_hash null, every later one has the content_hash of the artifact
\* event before it as parent_hash, and the artifact events are those of
\* plan steps of strictly increasing index.
C12_ArtifactParentChain ==
    call.recording =>
        LET artifact_events == events_of_type("execution_artifact")
            at == [k \in 1..Len(artifact_events) |->
                      CHOOSE i \in 1..Len(run_events) :
                          /\ run_events[i].type = "execution_artifact"
                          /\ Len(SelectSeq(SubSeq(run_events, 1, i),
                                           LAMBDA e : e.type = "execution_artifact")) = k]
        IN  /\ Len(artifact_events) >= 1 => artifact_events[1].payload.parent_hash = None
            /\ \A k \in 2..Len(artifact_events) :
                  /\ artifact_events[k].payload.parent_hash
                         = artifact_events[k - 1].payload.content_hash
                  /\ artifact_events[k].payload.parent_hash # None
                  /\ steps_before(at[k - 1]) < steps_before(at[k])
            /\ \A k \in 1..Len(artifact_events) :
                  /\ steps_before(at[k]) \in 1..Len(call.plan)
                  /\ artifact_events[k].payload.action_id = call.plan[steps_before(at[k])].id

\* A run with two artifact events, the second chained to the first.
C12_Witness ==
    /\ call.recording
    /\ pc = "returned"
    /\ Len(events_of_type("execution_artifact")) = 2
    /\ events_of_type("execution_artifact")[2].payload.parent_hash
           = events_of_type("execution_artifact")[1].payload.content_hash

\* C34: every payload written by execute_and_record (run start, step,
\* artifact and run end events) carries a content_hash equal to the SHA-256
\* of the canonical JSON of that payload without its content_hash field.
C34_PayloadContentHash ==
    call.recording =>
        \A i \in 1..Len(run_events) :
            /\ "content_hash" \in DOMAIN run_events[i].payload
            /\ run_events[i].payload.content_hash =
                   sha256_hex(canonical_json(without(run_events[i].payload,
                                                     "content_hash")))

\* C39: for every plan (step ids need not be distinct) and every behaviour
\* of the action stages, once the preconditions have passed execute_plan
\* does not raise: it returns an ExecutionLog with exactly one StepLog per
\* plan step in plan order, and log.ok is true exactly when no step has
\* status crash.
C39_ExecutePlanNeverRaises ==
    call.entry = "execute_plan" =>
        /\ calls # <<>> => pc # "raised"
        /\ pc = "returned" =>
              /\ Len(steps) = Len(call.plan)
              /\ \A i \in 1..Len(steps) :
                    /\ steps[i].id = call.plan[i].id
                    /\ steps[i].action = call.plan[i].action
              /\ execution_log.ok <=> \A i \in 1..Len(steps) : steps[i].status # "crash"

\* C13: a call of execute_and_record with ledger_required on a disabled
\* ledger, or with an enabled read-only ledger whatever ledger_required is,
\* raises with no validate, run or postcheck invoked, no ledger event written
\* and no ledger file created.
C13_LedgerPreconditionRaises ==
    ( /\ call.entry = "execute_and_record"
      /\ \/ call.ledger_required /\ ~call.cfg.ledger_enabled
         \/ call.cfg.ledger_enabled /\ call.cfg.ledger_readonly ) =>
        /\ pc = "raised"
        /\ calls = <<>>
        /\ steps = <<>>
        /\ fs.lines = <<>>
        /\ fs.kind # "file"

\* An enabled read-only ledger, ledger_required not set: the call raised
\* "ledger is read-only".
C13_Witness ==
    /\ call.entry = "execute_and_record"
    /\ ~call.ledger_required
    /\ call.cfg.ledger_enabled
    /\ call.cfg.ledger_readonly
    /\ pc = "raised"
    /\ exc = <<"RuntimeError", "ledger is read-only">>

\* C14: when a step of the plan is mutation-class and the mutation policy is
\* not EVOLUTIONARY, a call that did not pass a lineage gate raised with no
\* stage of any step invoked.
C14_MutationStepsRunOnlyAfterGate ==
    ( /\ pc # "idle"
      /\ _requires_lineage_gate(call.plan)
      /\ call.cfg.mutation_policy # "evolutionary"
      /\ call.gate # "passed" ) =>
        /\ pc = "raised"
        /\ calls = <<>>

stage_rank(stage) ==
    IF stage = "validate" THEN 1 ELSE IF stage = "run" THEN 2 ELSE 3

\* C23: for every step the executor invokes validate, then run, then
\* postcheck, each later stage only if the earlier one returned without
\* raising, and every stage of step i completes before any stage of step
\* i+1 starts: the steps are taken strictly in plan order. The stage logs of
\* a step tell which of its stages returned; a step whose artifact could not
\* be registered has no log, and all its stages returned.
C23_StagesInOrder ==
    /\ calls # <<>> => calls[1].stage = "validate"
    /\ \A k \in 1..(Len(calls) - 1) :
          \/ /\ calls[k + 1].step = calls[k].step
             /\ stage_rank(calls[k + 1].stage) = stage_rank(calls[k].stage) + 1
          \/ /\ calls[k + 1].step > calls[k].step
             /\ calls[k + 1].stage = "validate"
    /\ \A k \in 1..Len(calls) :
          calls[k].step \in 1..Len(steps) =>
              /\ stage_rank(calls[k].stage) <= Len(steps[calls[k].step].stages)
              /\ \A n \in 1..(stage_rank(calls[k].stage) - 1) :
                    steps[calls[k].step].stages[n].status = "ok"

C23_Witness ==
    /\ pc = "returned"
    /\ Len(calls) = 5
    /\ calls[3] = [step |-> 1, stage |-> "postcheck"]
    /\ calls[5] = [step |-> 2, stage |-> "run"]
    /\ steps[2].stages[2].status = "crash"

(***************************************************************************)
(* One step whose validate, run or postcheck raises: _execute_step maps    *)
(* the exception and logs the crash.                                       *)
(***************************************************************************)
\* The stage that raises and what it raises.
MapInputs ==
    { [stage |-> st, exc |-> Exc(cls, "", msg)] :
        st \in {"precheck", "execute", "postcheck"},
        cls \in {"ValueError", "TypeError", "PermissionError", "KeyError",
                 "FileNotFoundError", "TimeoutError", "RuntimeError", "OSError",
                 "UnicodeDecodeError", "IndexError", "AssertionError"},
        msg \in {"", "boom"} }
    \cup
    { [stage |-> st, exc |-> Exc("KernelCrash", code, msg)] :
        st \in {"precheck", "execute", "postcheck"},
        code \in {INTEGRITY_VIOLATION, EVIDENCE_MISSING, DETERMINISM_BREACH,
                  UNLOGGED_EXECUTION},
        msg \in {"", "unlogged"} }

\* _execute_step of a step whose stage map_in.stage raises map_in.exc, the
\* stages before it returning.
ExecuteCrashingStep ==
    /\ map_in # <<>>
    /\ map_out = <<>>
    /\ map_out' =
          <<_execute_step(ActionSpec("a", "demo", <<>>),
                          IF map_in.stage = "precheck" THEN map_in.exc ELSE Returned,
                          IF map_in.stage = "execute" THEN map_in.exc ELSE Returned,
                          IF map_in.stage = "postcheck" THEN map_in.exc ELSE Returned,
                          0)>>
    /\ UNCHANGED <<fs, ledgerVars, execVars, adm_in, adm_out, cfg_in, cfg_out, map_in,
                   mutVars, orchVars>>

InitMap ==
    /\ fs = [parent |-> FALSE, kind |-> "absent", lines |-> <<>>]
    /\ LedgerIdle
    /\ ExecIdle
    /\ OrchIdle
    /\ adm_in = <<>>
    /\ adm_out = <<>>
    /\ cfg_in = <<>>
    /\ cfg_out = <<>>
    /\ map_in \in MapInputs
    /\ map_out = <<>>
    /\ mut_in = <<>>
    /\ mut_out = <<>>

NextMap == ExecuteCrashingStep

SpecMap == InitMap /\ [][NextMap]_vars

\* C24: an exception raised by any stage is recorded as a crash whose code is
\* INTEGRITY_VIOLATION for ValueError, TypeError or PermissionError,
\* EVIDENCE_MISSING for KeyError or FileNotFoundError, and DETERMINISM_BREACH
\* for TimeoutError and for every other exception; a KernelCrash raised by a
\* stage keeps its own code and detail.
C24_StageExceptionMapping ==
    map_out # <<>> =>
        LET e == map_in.exc
            log == map_out[1]
            last == log.stages[Len(log.stages)]
            is_a(classes) == \E c \in classes : c \in mro(e.cls)
        IN  /\ log.status = "crash"
            /\ last.stage = map_in.stage
            /\ last.status = "crash"
            /\ last.code = log.code
            /\ last.detail = log.detail
            /\ IF e.cls = "KernelCrash"
               THEN log.code = e.code /\ log.detail = e.msg
               ELSE IF is_a({"ValueError", "TypeError", "PermissionError"})
               THEN log.code = INTEGRITY_VIOLATION
               ELSE IF is_a({"KeyError", "FileNotFoundError"})
               THEN log.code = EVIDENCE_MISSING
               ELSE log.code = DETERMINISM_BREACH

C24_Witness ==
    /\ map_out # <<>>
    /\ map_in.exc.cls = "FileNotFoundError"
    /\ map_in.stage = "execute"
    /\ map_out[1].code = EVIDENCE_MISSING
    /\ Len(map_out[1].stages) = 2

(***************************************************************************)
(* The mutate_code action: validate and run. Source text is a sequence of  *)
(* tokens: NL is a line break, any other token is one line holding one     *)
(* top-level statement, written as ast.unparse prints it. The sandbox      *)
(* worker's outcome and the doctor report under home are the environment.  *)
(***************************************************************************)
_ALLOWED_IMPORTS ==
    {"math", "json", "re", "statistics", "decimal", "fractions", "typing",
     "itertools", "functools", "operator"}

NL == "\n"
Blank == "  "

\* str.strip("\n")
RECURSIVE strip_newlines(_)
strip_newlines(s) ==
    IF s = <<>> THEN s
    ELSE IF Head(s) = NL THEN strip_newlines(Tail(s))
    ELSE IF s[Len(s)] = NL THEN strip_newlines(SubSeq(s, 1, Len(s) - 1))
    ELSE s

\* _coerce_source of a str: ValueError for a blank one, else the text without
\* the newlines around it and with one newline appended.
_coerce_source(raw) ==
    LET trimmed == strip_newlines(raw)
    IN  IF \A i \in 1..Len(trimmed) : trimmed[i] \in {NL, Blank}
        THEN [raises |-> "ValueError: src must not be empty", src |-> <<>>]
        ELSE [raises |-> "", src |-> Append(trimmed, NL)]

\* _coerce_timeout in hundredths of a second: <<>> is timeout=None.
_coerce_timeout(raw, c) ==
    LET min(a, b) == IF a <= b THEN a ELSE b
        max(a, b) == IF a >= b THEN a ELSE b
    IN  IF raw = None
        THEN [raises |-> "", timeout |-> min(100, c.planner_max_seconds)]
        ELSE IF raw[1] <= 0
        THEN [raises |-> "ValueError: timeout must be positive", timeout |-> 0]
        ELSE [raises |-> "", timeout |-> min(raw[1], max(1, c.planner_max_seconds))]

\* ast.parse: the statements of the module body, or a SyntaxError.
Unclosed == "x = ("
ast_parse(src) ==
    IF \E i \in 1..Len(src) : src[i] = Unclosed
    THEN [raises |-> "SyntaxError", body |-> <<>>]
    ELSE [raises |-> "", body |-> SelectSeq(src, LAMBDA t : t \notin {NL, Blank})]

\* ast.unparse(module).strip() + "\n"
RECURSIVE unparse_lines(_)
unparse_lines(body) ==
    IF body = <<>> THEN <<>>
    ELSE IF Len(body) = 1 THEN body
    ELSE <<Head(body), NL>> \o unparse_lines(Tail(body))
ast_unparse(body) == Append(unparse_lines(body), NL)

\* _mutate_source: the top-level pass statements dropped.
_mutate_source(body) ==
    LET mutated == SelectSeq(body, LAMBDA t : t # "pass")
    IN  [mutated_src |-> ast_unparse(mutated),
         mutation_kind |-> IF mutated # body THEN "drop_pass" ELSE ""]

\* _iter_imports: the root module of every import statement.
_iter_imports(body) ==
    LET root(t) == CASE t = "import os" -> {"os"}
                     [] t = "from os.path import join" -> {"os"}
                     [] t = "import math" -> {"math"}
                     [] OTHER -> {}
    IN  UNION {root(body[i]) : i \in 1..Len(body)}

\* What _execute_in_sandbox can return: error "" is no "error" key, exitcode
\* <<>> is None.
SandboxOk ==
    [ok |-> TRUE, error |-> "", timeout |-> FALSE,
     resource_caps |-> <<[supported |-> TRUE]>>, exitcode |-> <<0>>]
SandboxRaised ==
    [ok |-> FALSE, error |-> "ValueError('x')", timeout |-> FALSE,
     resource_caps |-> <<>>, exitcode |-> <<0>>]
SandboxStartFailed ==
    [ok |-> FALSE, error |-> "start_failed:OSError()", timeout |-> FALSE,
     resource_caps |-> <<>>, exitcode |-> <<>>]
SandboxTimeout ==
    [ok |-> FALSE, error |-> "", timeout |-> TRUE,
     resource_caps |-> <<>>, exitcode |-> <<-15>>]
SandboxNoResult ==
    [ok |-> FALSE, error |-> "no_result_no_message", timeout |-> FALSE,
     resource_caps |-> <<>>, exitcode |-> <<1>>]

\* _execute_in_sandbox: the worker reports ok when the code raises nothing,
\* reports the exception when it does, and may in either case fail to start,
\* outlive the timeout or die without a message.
_execute_in_sandbox(code) ==
    {IF \E i \in 1..Len(code) : code[i] = "raise ValueError('x')"
     THEN SandboxRaised ELSE SandboxOk,
     SandboxStartFailed, SandboxTimeout, SandboxNoResult}

\* error_detail.startswith("start_failed:")
startswith_start_failed(error) == error = "start_failed:OSError()"

\* home/.adaad/doctor/latest.json: absent, not a JSON object, or an object
\* with a status.
DoctorReports ==
    {[exists |-> FALSE, object |-> FALSE, status |-> ""],
     [exists |-> TRUE, object |-> FALSE, status |-> ""]}
    \cup {[exists |-> TRUE, object |-> TRUE, status |-> s] :
            s \in {"PASS", "pass", "FAIL", ""}}

\* str.lower() on the status values above.
lower(s) == CASE s = "PASS" -> "pass" [] s = "FAIL" -> "fail" [] OTHER -> s

\* status == "pass" after lower-casing
passes(status) == lower(status) = "pass"

\* _doctor_gate
_doctor_gate(doctor) ==
    IF ~doctor.exists THEN [ok |-> FALSE, reason |-> "doctor_report_missing"]
    ELSE IF ~doctor.object THEN [ok |-> FALSE, reason |-> "doctor_report_invalid"]
    ELSE IF ~passes(doctor.status) THEN [ok |-> FALSE, reason |-> "doctor_report_not_pass"]
    ELSE [ok |-> TRUE, reason |-> ""]

\* _record_ledger: the ledger_event it returns (<<>> for None) and the ledger
\* path afterwards.
_record_ledger(c, f, payload) ==
    IF ~c.ledger_enabled \/ c.ledger_readonly THEN [ledger_event |-> <<>>, fs |-> f]
    ELSE IF ensure_ledger_raises(c, f) # ""
    THEN [ledger_event |-> <<[error |-> ensure_ledger_raises(c, f)]>>,
          fs |-> ensure_ledger_fs(c, f)]
    ELSE LET g == ensure_ledger_fs(c, f)
             event == build_event(c, "mutation_attempt", payload,
                                  "2024-01-01T00:00:00Z", "mutate_code", "u1",
                                  _last_hash(g.lines))
         IN  [ledger_event |-> <<[event_id |-> event.event_id, hash |-> event.hash]>>,
              fs |-> append_fs(c, f, "mutation_attempt", payload,
                               "2024-01-01T00:00:00Z", "mutate_code", "u1")]

skip_reason_tier_first(c, gate) ==
    IF c.resource_tier = "mobile" THEN "resource_tier=mobile"
    ELSE IF c.mutation_policy = "locked" THEN "mutation_policy_locked"
    ELSE IF ~gate.ok
    THEN (IF gate.reason # "" THEN gate.reason ELSE "cryovant_lineage_blocked")
    ELSE ""

\* validate: the skip reason, "" for None.
skip_reason(c, gate) ==
    IF c.mutation_policy = "locked" THEN "mutation_policy_locked"
    ELSE IF c.resource_tier = "mobile" THEN "resource_tier=mobile"
    ELSE IF ~gate.ok
    THEN (IF gate.reason # "" THEN gate.reason ELSE "cryovant_lineage_blocked")
    ELSE ""

\* validate(params, cfg): what it raises, or the validated dict.
mutate_validate(params, c) ==
    LET src == _coerce_source(params.src)
        timeout == _coerce_timeout(params.timeout, c)
        lineage_hash == IF params.lineage_hash # None THEN params.lineage_hash
                        ELSE c.readiness_gate_sig
        gate == cryovant_lineage_gate(params.evidence_store, lineage_hash)
    IN  IF src.raises # "" THEN [raises |-> src.raises, validated |-> <<>>]
        ELSE IF timeout.raises # "" THEN [raises |-> timeout.raises, validated |-> <<>>]
        ELSE [raises |-> "",
              validated |->
                  <<[src |-> src.src, timeout |-> timeout.timeout,
                     policy |-> c.mutation_policy, resource_tier |-> c.resource_tier,
                     skip_reason |-> skip_reason(c, gate), cfg |-> c,
                     lineage_hash |-> lineage_hash]>>]

\* MutationReport(...).to_dict()
MutationReport(mutated_src, score, ast_ok, sandbox_ok, timeout, allowlist_ok, skipped, reason, ledger_event, mutation_kind, auto_promote, doctor_gate_ok, resource_caps) ==
    [mutated_src |-> mutated_src, score |-> score, ast_ok |-> ast_ok,
     sandbox_ok |-> sandbox_ok, timeout |-> timeout, allowlist_ok |-> allowlist_ok,
     skipped |-> skipped, reason |-> reason, ledger_event |-> ledger_event,
     mutation_kind |-> mutation_kind, auto_promote |-> auto_promote,
     doctor_gate_ok |-> doctor_gate_ok, resource_caps |-> resource_caps]

\* run(validated) past the two early returns, with the sandbox result and
\* the doctor report it meets: the report and the ledger path afterwards.
run_sandboxed(validated, f, mutated, sandbox_result, doctor) ==
    LET c == validated.cfg
        sandbox_ok == sandbox_result.ok
        error_detail == sandbox_result.error
        timed_out == sandbox_result.timeout
                     \/ error_detail \in {"no_result", "no_result_no_message"}
        score == IF sandbox_ok THEN 1 ELSE 0
        gate == _doctor_gate(doctor)
        can_promote == /\ sandbox_ok
                       /\ c.mutation_policy = "evolutionary"
                       /\ c.resource_tier = "server"
        auto_promote == can_promote /\ gate.ok
        gate_reason ==
            IF can_promote /\ ~gate.ok THEN "requires_doctor_gate"
            ELSE IF startswith_start_failed(error_detail) THEN "sandbox_start_failed"
            ELSE IF timed_out THEN "timeout"
            ELSE IF ~sandbox_ok /\ error_detail # "" THEN "sandbox_error"
            ELSE ""
        ledger_payload ==
            [policy |-> c.mutation_policy, resource_tier |-> c.resource_tier,
             ast_ok |-> TRUE, allowlist_ok |-> TRUE, sandbox_ok |-> sandbox_ok,
             timeout |-> timed_out, score |-> score, auto_promote |-> auto_promote,
             doctor_gate |-> gate.ok, doctor_reason |-> gate.reason,
             mutation_kind |-> mutated.mutation_kind,
             resource_caps |-> sandbox_result.resource_caps,
             sandbox_error |-> error_detail, exitcode |-> sandbox_result.exitcode]
        recorded == _record_ledger(c, f, ledger_payload)
    IN  [raises |-> "", workers |-> 1, fs |-> recorded.fs,
         report |-> <<MutationReport(mutated.mutated_src, score, TRUE, sandbox_ok,
                                     timed_out, TRUE, FALSE, gate_reason,
                                     recorded.ledger_event, mutated.mutation_kind,
                                     auto_promote, gate.ok,
                                     sandbox_result.resource_caps)>>]

\* run(validated): what it raises or the report it returns, how many sandbox
\* workers it started, and the ledger path afterwards.
mutate_run(validated, f, sandbox_result, doctor) ==
    IF validated.skip_reason # ""
    THEN [raises |-> "", workers |-> 0, fs |-> f,
          report |-> <<MutationReport(validated.src, 0, FALSE, FALSE, FALSE, FALSE, TRUE,
                                      validated.skip_reason, <<>>, "", FALSE, FALSE,
                                      <<>>)>>]
    ELSE LET original_tree == ast_parse(validated.src)
             mutated == _mutate_source(original_tree.body)
             imported == _iter_imports(ast_parse(mutated.mutated_src).body)
         IN  IF original_tree.raises # ""
             THEN [raises |-> original_tree.raises, workers |-> 0, fs |-> f,
                   report |-> <<>>]
             ELSE IF ~(imported \subseteq _ALLOWED_IMPORTS)
             THEN [raises |-> "", workers |-> 0, fs |-> f,
                   report |-> <<MutationReport(mutated.mutated_src, 0, TRUE, FALSE, FALSE,
                                               FALSE, FALSE, "import_not_allowed", <<>>,
                                               mutated.mutation_kind, FALSE, FALSE,
                                               <<>>)>>]
             ELSE run_sandboxed(validated, f, mutated, sandbox_result, doctor)

\* The sources, timeouts and configs mutate_code is called with.
Sources ==
    { <<"x = 1">>, <<"x = 1", NL>>, <<NL, "x = 1", NL, "pass", NL, NL>>,
      <<"pass", NL>>, <<"import os", NL, "x = 1", NL>>, <<"import math", NL>>,
      <<"raise ValueError('x')", NL>>, <<Unclosed, NL>>, <<NL, Blank, NL>>, <<>> }
Timeouts == {None, <<0>>, <<50>>}
MutCfgs ==
    {[DefaultConfig EXCEPT !.mutation_policy = p, !.resource_tier = t,
                           !.ledger_enabled = l[1], !.ledger_readonly = l[2]] :
        p \in {"locked", "sandboxed", "evolutionary"},
        t \in {"mobile", "edge", "server"},
        l \in {<<FALSE, FALSE>>, <<TRUE, FALSE>>, <<TRUE, TRUE>>}}

\* validate(params, cfg) as the executor's first stage calls it.
MutValidate(params, c) ==
    /\ mut_in = <<>>
    /\ mut_in' = <<[params |-> params, cfg |-> c,
                    raises |-> mutate_validate(params, c).raises,
                    validated |-> mutate_validate(params, c).validated]>>
    /\ UNCHANGED <<fs, ledgerVars, execVars, adm_in, adm_out, cfg_in, cfg_out, mapVars,
                   mut_out, orchVars>>

\* run(validated) on what validate returned, the sandbox and the doctor
\* report being what the environment has them be.
MutRun(doctor) ==
    /\ mut_in # <<>>
    /\ mut_in[1].raises = ""
    /\ mut_out = <<>>
    /\ \E sandbox_result \in _execute_in_sandbox(mut_in[1].validated[1].src) :
          LET r == mutate_run(mut_in[1].validated[1], fs, sandbox_result, doctor)
          IN  /\ mut_out' = <<[raises |-> r.raises, report |-> r.report,
                               workers |-> r.workers, doctor |-> doctor,
                               lines_before |-> fs.lines]>>
              /\ fs' = r.fs
    /\ UNCHANGED <<ledgerVars, execVars, adm_in, adm_out, cfg_in, cfg_out, mapVars,
                   mut_in, orchVars>>

InitMut ==
    /\ fs \in [parent : {FALSE}, kind : {"absent", "dir"}, lines : {<<>>}]
    /\ LedgerIdle
    /\ ExecIdle
    /\ OrchIdle
    /\ adm_in = <<>>
    /\ adm_out = <<>>
    /\ cfg_in = <<>>
    /\ cfg_out = <<>>
    /\ OtherIdle

NextMut ==
    \/ \E params \in [src : Sources, timeout : Timeouts,
                      evidence_store : {NoStore, HonestStore},
                      lineage_hash : {None, KnownLineage, UnknownLineage}],
          c \in MutCfgs : MutValidate(params, c)
    \/ \E doctor \in DoctorReports : MutRun(doctor)

SpecMut == InitMut /\ [][NextMut]_vars

(***************************************************************************)
(* Claims about mutate_code, checked under SpecMut.                        *)
(***************************************************************************)
\* The report run returned, the config and the params of the call.
mut_report == mut_out[1].report[1]
mut_cfg == mut_in[1].cfg
mut_params == mut_in[1].params
mut_returned == mut_out # <<>> /\ mut_out[1].report # <<>>

\* C26: a report has auto_promote=true only if the attempt was not skipped,
\* the sandbox run succeeded, the import allowlist passed, mutation_policy is
\* EVOLUTIONARY, resource_tier is SERVER and the doctor report exists with
\* status PASS.
C26_AutoPromoteOnlyIfAllGatesPass ==
    (mut_returned /\ mut_report.auto_promote) =>
        /\ ~mut_report.skipped
        /\ mut_report.sandbox_ok
        /\ mut_report.allowlist_ok
        /\ mut_cfg.mutation_policy = "evolutionary"
        /\ mut_cfg.resource_tier = "server"
        /\ mut_out[1].doctor.exists
        /\ mut_out[1].doctor.object
        /\ mut_out[1].doctor.status = "PASS"

\* The lineage gate of the call fails.
mut_gate ==
    cryovant_lineage_gate(mut_params.evidence_store,
                          IF mut_params.lineage_hash # None THEN mut_params.lineage_hash
                          ELSE mut_cfg.readiness_gate_sig)

\* The first applicable skip reason in the order policy, tier, gate.
first_skip_reason ==
    IF mut_cfg.mutation_policy = "locked" THEN "mutation_policy_locked"
    ELSE IF mut_cfg.resource_tier = "mobile" THEN "resource_tier=mobile"
    ELSE mut_gate.reason

\* One of the three skip conditions holds.
must_skip ==
    \/ mut_cfg.mutation_policy = "locked"
    \/ mut_cfg.resource_tier = "mobile"
    \/ ~mut_gate.ok

C28_EveryPathRecordsAttempt ==
    (/\ mut_returned
     /\ mut_cfg.ledger_enabled
     /\ ~mut_cfg.ledger_readonly
     /\ fs.kind # "dir") =>
        /\ Len(fs.lines) = Len(mut_out[1].lines_before) + 1
        /\ json_loads(fs.lines[Len(fs.lines)]).type = "mutation_attempt"

(***************************************************************************)
(* MetaOrchestrator.run, for an orchestrator without archetype. The plan   *)
(* is what plan_factory returns and the action table what action_builder   *)
(* returns.                                                                *)
(***************************************************************************)
OrchestrationFailure ==
    { "BOOT_FAILED", "EMERGENCY_HALT", "AGENTS_DISABLED", "READINESS_FREEZE",
      "MUTATION_POLICY_BLOCKED", "LINEAGE_GATE_REJECTED", "PLAN_INVALID",
      "EXECUTION_FAILED" }

\* The action names the orchestrator takes for mutation.
_MUTATION_ACTIONS == {"mutate_code", "generate_patch"}

\* boot_sequence, as far as run() reads it: the exception config.validate()
\* raises (<<>> for none), "ok", "frozen" and the ledger path afterwards.
\* structure_ok is what the package structure, tree law and telemetry
\* checks give; the ledger checks fail when the ledger path is a directory.
boot_sequence(c, f, structure_ok) ==
    LET config == enforce_readiness_gate(c).cfg
        ledger_ok == ~config.ledger_enabled \/ f.kind # "dir"
    IN  IF config.emergency_halt \/ ~config.agents_enabled
        THEN [raises |-> <<>>, ok |-> FALSE, frozen |-> TRUE, fs |-> f]
        ELSE IF validate(config) # <<>>
        THEN [raises |-> validate(config), ok |-> FALSE, frozen |-> FALSE, fs |-> f]
        ELSE [raises |-> <<>>, ok |-> structure_ok /\ ledger_ok, frozen |-> FALSE,
              fs |-> IF config.ledger_enabled /\ ledger_ok
                     THEN ensure_ledger_fs(config, f) ELSE f]

\* OrchestratorResult: plan and execution are <<>> for None, failure_reason
\* is "" for None.
OrchestratorResult(ok, plan, execution, failure_reason) ==
    [ok |-> ok, plan |-> plan, execution |-> execution,
     failure_reason |-> failure_reason]

frozen_failure_agents_first(c) ==
    IF ~c.agents_enabled THEN "AGENTS_DISABLED"
    ELSE IF c.emergency_halt THEN "EMERGENCY_HALT"
    ELSE "BOOT_FAILED"

\* The failure of a run whose config is halted, has its agents disabled or
\* whose boot is frozen.
frozen_failure(c) ==
    IF c.emergency_halt THEN "EMERGENCY_HALT"
    ELSE IF ~c.agents_enabled THEN "AGENTS_DISABLED"
    ELSE "BOOT_FAILED"

\* The configs run() is called with.
OrchCfgs ==
    { DefaultConfig,
      [DefaultConfig EXCEPT !.ledger_enabled = TRUE],
      [DefaultConfig EXCEPT !.ledger_enabled = TRUE, !.ledger_readonly = TRUE],
      [DefaultConfig EXCEPT !.ledger_enabled = TRUE, !.ledger_dir = ""],
      [DefaultConfig EXCEPT !.planner_max_steps = 0],
      [DefaultConfig EXCEPT !.mutation_policy = "sandboxed"],
      [DefaultConfig EXCEPT !.ledger_enabled = TRUE, !.mutation_policy = "sandboxed",
                            !.readiness_gate_sig = KnownLineage],
      [DefaultConfig EXCEPT !.mutation_policy = "evolutionary",
                            !.readiness_gate_sig = ValidReadinessSig],
      [DefaultConfig EXCEPT !.mutation_policy = "evolutionary"],
      [DefaultConfig EXCEPT !.ledger_enabled = TRUE, !.agents_enabled = FALSE],
      [DefaultConfig EXCEPT !.ledger_enabled = TRUE, !.emergency_halt = TRUE],
      [DefaultConfig EXCEPT !.ledger_enabled = TRUE, !.ledger_readonly = TRUE,
                            !.emergency_halt = TRUE, !.agents_enabled = FALSE,
                            !.freeze_reason = "EMERGENCY_HALT"] }

\* The evidence_store and lineage_hash run() is called with.
OrchLineage ==
    { [evidence_store |-> NoStore, lineage_hash |-> None],
      [evidence_store |-> HonestStore, lineage_hash |-> None],
      [evidence_store |-> HonestStore, lineage_hash |-> KnownLineage],
      [evidence_store |-> HonestStore, lineage_hash |-> UnknownLineage] }

\* The gate the orchestrator computes: lineage_hash or cfg.readiness_gate_sig.
orch_gate(c, lin) ==
    cryovant_lineage_gate(lin.evidence_store,
                          IF lin.lineage_hash # None THEN lin.lineage_hash
                          ELSE c.readiness_gate_sig)

\* run() up to its call of execute_and_record: it raises what boot's
\* config.validate() raises, returns a failure, or goes on to execute. The
\* plan is kept once plan_factory was called, the lineage arguments once
\* they are read, by the orchestrator or by the executor's gate.
OrchRun(c, plan, lin, structure_ok) ==
    /\ orch.stage = "idle"
    /\ pc = "idle"
    /\ LET cfg_enforced == enforce_readiness_gate(c).cfg
           boot == boot_sequence(cfg_enforced, fs, structure_ok)
           mutation_actions_present ==
               \E i \in 1..Len(plan) : plan[i].action \in _MUTATION_ACTIONS
           gate_result == orch_gate(cfg_enforced, lin)
           kept == IF mutation_actions_present \/ _requires_lineage_gate(plan)
                   THEN <<[evidence_store |-> lin.evidence_store,
                           lineage_hash |-> lin.lineage_hash,
                           gate_result |-> IF mutation_actions_present
                                           THEN <<gate_result>> ELSE <<>>]>>
                   ELSE <<>>
           fails(plan_, lin_, failure) ==
               [stage |-> "returned", cfg |-> cfg_enforced, plan |-> plan_, lin |-> lin_,
                result |-> <<OrchestratorResult(FALSE, plan_, <<>>, failure)>>,
                exc |-> <<>>, archetype |-> "", actions |-> <<>>]
       IN  /\ orch' =
                 IF boot.raises # <<>>
                 THEN [stage |-> "raised", cfg |-> cfg_enforced, plan |-> <<>>,
                       lin |-> <<>>, result |-> <<>>, exc |-> boot.raises,
                       archetype |-> "", actions |-> <<>>]
                 ELSE IF \/ cfg_enforced.emergency_halt
                         \/ ~cfg_enforced.agents_enabled
                         \/ boot.frozen
                 THEN fails(<<>>, <<>>, frozen_failure(cfg_enforced))
                 ELSE IF ~boot.ok THEN fails(<<>>, <<>>, "BOOT_FAILED")
                 ELSE IF mutation_actions_present /\ ~mutation_enabled(cfg_enforced)
                 THEN fails(<<plan>>, kept, "MUTATION_POLICY_BLOCKED")
                 ELSE IF mutation_actions_present /\ ~gate_result.ok
                 THEN fails(<<plan>>, kept, "LINEAGE_GATE_REJECTED")
                 ELSE [stage |-> "executing", cfg |-> cfg_enforced, plan |-> <<plan>>,
                       lin |-> kept, result |-> <<>>, exc |-> <<>>,
                       archetype |-> "", actions |-> <<>>]
           /\ fs' = boot.fs
    /\ UNCHANGED <<ledgerVars, execVars, pureVars, boot_out, extraVars>>

\* builtin_action_names()
_BUILTIN_ACTION_MODULE_NAMES ==
    {"scan_repo_tree", "scan_risks", "mutate_code", "generate_patch", "run_tests",
     "summarize_results", "write_report"}

_ALLOWED_MONETIZER_PREFIXES ==
    {"adaad6.planning.actions.", "adaad6.adapters.monetizer.",
     "adaad6.adapters.monetizer_adapter"}

\* _is_revenue_safe_action: an action module is modelled by the prefix of its
\* module's __name__ that startswith() is tested on.
_is_revenue_safe_action(module) == module \in _ALLOWED_MONETIZER_PREFIXES

_monetizer_action_filter_by_provenance(actions) ==
    {name \in DOMAIN actions : _is_revenue_safe_action(actions[name])}

\* _monetizer_action_filter: the names of the table it returns. actions maps
\* a name to its module.
_monetizer_action_filter(actions) ==
    LET unsafe == {"mutate_code", "generate_patch"}
        safe_names == _BUILTIN_ACTION_MODULE_NAMES \ unsafe
    IN  {name \in DOMAIN actions :
            name \in safe_names /\ _is_revenue_safe_action(actions[name])}

\* _hashed_payload
_hashed_payload(payload) ==
    [k \in DOMAIN payload \cup {"payload_hash"} |->
        IF k = "payload_hash" THEN sha256_hex(canonical_json(payload)) ELSE payload[k]]

Goal == "earn"

\* _monetizer_start past its ledger_enabled test: the ledger path afterwards.
_monetizer_start(c, f, plan) ==
    append_fs(c, f, "monetizer_run_start",
              _hashed_payload([archetype |-> "monetizer", stage |-> "start",
                               goal |-> Goal,
                               plan |-> [i \in 1..Len(plan) |-> spec_to_dict(plan[i])]]),
              "2024-01-01T00:00:00Z", "monetizer", "u1")

\* _monetizer_complete past its ledger_enabled test: the ledger path
\* afterwards.
_monetizer_complete(c, f, log) ==
    append_fs(c, f, "monetizer_run_complete",
              _hashed_payload([archetype |-> "monetizer", stage |-> "complete",
                               goal |-> Goal, ok |-> log.ok, run_id |-> RunId]),
              "2024-01-01T00:00:00Z", "monetizer", "u1")

\* The configs, plan steps and action tables a monetizer run is given: a
\* table maps the name of each discovered action to its module.
MonCfgs ==
    { DefaultConfig,
      [DefaultConfig EXCEPT !.ledger_enabled = TRUE],
      [DefaultConfig EXCEPT !.ledger_enabled = TRUE, !.ledger_readonly = TRUE],
      [DefaultConfig EXCEPT !.ledger_enabled = TRUE, !.mutation_policy = "sandboxed",
                            !.readiness_gate_sig = KnownLineage],
      [DefaultConfig EXCEPT !.ledger_enabled = TRUE, !.mutation_policy = "evolutionary",
                            !.readiness_gate_sig = ValidReadinessSig] }
MonPlanSpecs ==
    { ActionSpec("a", "scan_risks", <<>>), ActionSpec("b", "scan_risks", <<"mutation">>),
      ActionSpec("c", "mutate_code", <<>>), ActionSpec("d", "generate_patch", <<>>),
      ActionSpec("e", "evolve", <<>>) }
MonPlans == UNION {[1..n -> MonPlanSpecs] : n \in 0..MaxPlan}
MonTables ==
    { [name \in {"scan_risks", "mutate_code", "generate_patch", "evolve"} |->
          "adaad6.planning.actions."],
      [name \in {"scan_risks", "mutate_code", "generate_patch", "evolve"} |->
          "thirdparty."],
      [name \in {"scan_risks", "mutate_code"} |-> "adaad6.adapters.monetizer."],
      [name \in {"mutate", "autopromote"} |-> "adaad6.planning.actions."] }

\* run() of MetaOrchestrator("monetizer") up to its call of
\* execute_and_record: as above, with the ledger required, the table
\* action_builder returned filtered, and on_start appending its event.
OrchRunMonetizer(c, plan, lin, structure_ok, actions) ==
    /\ orch.stage = "idle"
    /\ pc = "idle"
    /\ LET cfg_enforced == enforce_readiness_gate(c).cfg
           boot == boot_sequence(cfg_enforced, fs, structure_ok)
           mutation_actions_present ==
               \E i \in 1..Len(plan) : plan[i].action \in _MUTATION_ACTIONS
           gate_result == orch_gate(cfg_enforced, lin)
           kept == IF mutation_actions_present \/ _requires_lineage_gate(plan)
                   THEN <<[evidence_store |-> lin.evidence_store,
                           lineage_hash |-> lin.lineage_hash,
                           gate_result |-> IF mutation_actions_present
                                           THEN <<gate_result>> ELSE <<>>]>>
                   ELSE <<>>
           filtered == <<_monetizer_action_filter(actions)>>
           fails(plan_, lin_, table, failure) ==
               [stage |-> "returned", cfg |-> cfg_enforced, plan |-> plan_, lin |-> lin_,
                result |-> <<OrchestratorResult(FALSE, plan_, <<>>, failure)>>,
                exc |-> <<>>, archetype |-> "monetizer", actions |-> table]
           throws(plan_, lin_, table, e) ==
               [stage |-> "raised", cfg |-> cfg_enforced, plan |-> plan_, lin |-> lin_,
                result |-> <<>>, exc |-> e, archetype |-> "monetizer",
                actions |-> table]
           starts == ~(\/ boot.raises # <<>>
                       \/ cfg_enforced.emergency_halt
                       \/ ~cfg_enforced.agents_enabled
                       \/ boot.frozen
                       \/ ~boot.ok
                       \/ ~cfg_enforced.ledger_enabled
                       \/ mutation_actions_present /\ ~mutation_enabled(cfg_enforced)
                       \/ mutation_actions_present /\ ~gate_result.ok)
       IN  /\ orch' =
                 IF boot.raises # <<>> THEN throws(<<>>, <<>>, <<>>, boot.raises)
                 ELSE IF \/ cfg_enforced.emergency_halt
                         \/ ~cfg_enforced.agents_enabled
                         \/ boot.frozen
                 THEN fails(<<>>, <<>>, <<>>, frozen_failure(cfg_enforced))
                 ELSE IF ~boot.ok THEN fails(<<>>, <<>>, <<>>, "BOOT_FAILED")
                 ELSE IF ~cfg_enforced.ledger_enabled
                 THEN throws(<<>>, <<>>, <<>>,
                             <<"RuntimeError",
                               "monetizer archetype requires ledger_enabled=True">>)
                 ELSE IF mutation_actions_present /\ ~mutation_enabled(cfg_enforced)
                 THEN fails(<<plan>>, kept, filtered, "MUTATION_POLICY_BLOCKED")
                 ELSE IF mutation_actions_present /\ ~gate_result.ok
                 THEN fails(<<plan>>, kept, filtered, "LINEAGE_GATE_REJECTED")
                 ELSE IF append_raises(cfg_enforced, boot.fs) # ""
                 THEN throws(<<plan>>, kept, filtered,
                             <<append_raises(cfg_enforced, boot.fs)>>)
                 ELSE [stage |-> "executing", cfg |-> cfg_enforced, plan |-> <<plan>>,
                       lin |-> kept, result |-> <<>>, exc |-> <<>>,
                       archetype |-> "monetizer", actions |-> filtered]
           /\ fs' = IF starts THEN _monetizer_start(cfg_enforced, boot.fs, plan)
                    ELSE boot.fs
    /\ UNCHANGED <<ledgerVars, execVars, pureVars, boot_out, extraVars>>

\* run() calls execute_and_record(plan.steps, actions, cfg_enforced, ctx,
\* evidence_store, lineage_hash, gate_result), ledger_required left False.
OrchExecute ==
    /\ orch.stage = "executing"
    /\ ExecStart("execute_and_record", orch.cfg, orch.plan[1], FALSE,
                 IF orch.lin # <<>> THEN orch.lin[1]
                 ELSE [evidence_store |-> NoStore, lineage_hash |-> None,
                       gate_result |-> <<>>])

\* execute_and_record is over: what it raised leaves run(); what it returned
\* is handed to the archetype's on_complete, whose append may raise, and
\* mapped to the result.
OrchEnd ==
    /\ orch.stage = "executing"
    /\ pc \in {"returned", "raised"}
    /\ LET completes == /\ pc = "returned"
                        /\ orch.archetype = "monetizer"
                        /\ orch.cfg.ledger_enabled
           raises == IF completes THEN append_raises(orch.cfg, fs) ELSE ""
       IN  /\ orch' =
                 IF pc = "raised" THEN [orch EXCEPT !.stage = "raised", !.exc = exc]
                 ELSE IF raises # ""
                 THEN [orch EXCEPT !.stage = "raised", !.exc = <<raises>>]
                 ELSE [orch EXCEPT
                          !.stage = "returned",
                          !.result = <<OrchestratorResult(
                                          execution_log.ok, orch.plan, <<execution_log>>,
                                          IF execution_log.ok THEN ""
                                          ELSE "EXECUTION_FAILED")>>]
           /\ fs' = IF completes
                    THEN _monetizer_complete(orch.cfg, fs, execution_log)
                    ELSE fs
    /\ UNCHANGED <<ledgerVars, execVars, pureVars, boot_out, extraVars>>

NextOrch ==
    \/ /\ orch.stage = "idle"
       /\ \E c \in OrchCfgs, plan \in Plans, lin \in OrchLineage,
             structure_ok \in BOOLEAN : OrchRun(c, plan, lin, structure_ok)
    \/ OrchExecute
    \/ StepSkipped
    \/ StepUnknownAction
    \/ /\ in_loop
       /\ \E o \in StepOutcomes : StepExecuted(o[1], o[2], o[3], o[4])
    \/ /\ in_loop
       /\ \E out \in OutputSizes : StepRegisterRaises(out)
    \/ ExecReturn
    \/ OrchEnd

SpecOrch == Init /\ [][NextOrch]_vars

NextMon ==
    \/ /\ orch.stage = "idle"
       /\ \E c \in MonCfgs, plan \in MonPlans, lin \in OrchLineage,
             structure_ok \in BOOLEAN, actions \in MonTables :
             OrchRunMonetizer(c, plan, lin, structure_ok, actions)
    \/ OrchExecute
    \/ StepSkipped
    \/ StepUnknownAction
    \/ /\ in_loop
       /\ \E o \in StepOutcomes : StepExecuted(o[1], o[2], o[3], o[4])
    \/ /\ in_loop
       /\ \E out \in OutputSizes : StepRegisterRaises(out)
    \/ ExecReturn
    \/ OrchEnd

SpecMon == Init /\ [][NextMon]_vars

(***************************************************************************)
(* Claims about the orchestrator, checked under SpecOrch.                  *)
(***************************************************************************)
\* The result of a run that returned.
orch_result == orch.result[1]

\* C16: run on a config with emergency_halt=true returns ok=false with
\* failure_reason EMERGENCY_HALT, and on a non-halted config with
\* agents_enabled=false returns failure_reason AGENTS_DISABLED; in both cases
\* plan and execution are null, no action stage is invoked and no ledger
\* event is appended.
C16_HaltedOrDisabledRunFails ==
    (orch.stage # "idle" /\ (orch.cfg.emergency_halt \/ ~orch.cfg.agents_enabled)) =>
        /\ orch.stage = "returned"
        /\ orch_result =
              OrchestratorResult(FALSE, None, None,
                                 IF orch.cfg.emergency_halt THEN "EMERGENCY_HALT"
                                 ELSE "AGENTS_DISABLED")
        /\ pc = "idle"
        /\ calls = <<>>
        /\ fs.lines = <<>>

C16_Witness ==
    /\ orch.stage = "returned"
    /\ orch.cfg.emergency_halt
    /\ ~orch.cfg.agents_enabled
    /\ orch.cfg.ledger_enabled
    /\ orch_result.failure_reason = "EMERGENCY_HALT"

\* C17: if the plan contains a mutation-class step (action name in
\* {mutate_code, mutate, evolve, autopromote, autonomous_mutation} or effects
\* containing mutation or evolution) and the mutation policy forbids
\* mutation, run returns failure_reason MUTATION_POLICY_BLOCKED with
\* execution null and invokes no stage of any step, whatever the lineage
\* gate gives.
C17_MutationPlanBlockedByPolicy ==
    ( /\ orch.plan # <<>>
      /\ _requires_lineage_gate(orch.plan[1])
      /\ ~mutation_enabled(orch.cfg) ) =>
        /\ calls = <<>>
        /\ orch.stage \in {"returned", "raised"} =>
              /\ orch.stage = "returned"
              /\ orch_result.failure_reason = "MUTATION_POLICY_BLOCKED"
              /\ orch_result.execution = None

\* C18: if the plan contains a mutation-class step, the policy permits
\* mutation and the cryovant lineage gate fails, run returns failure_reason
\* LINEAGE_GATE_REJECTED with execution null, and no action's validate, run
\* or postcheck is invoked.
C18_FailingGateRejectsRun ==
    ( /\ orch.plan # <<>>
      /\ _requires_lineage_gate(orch.plan[1])
      /\ mutation_enabled(orch.cfg)
      /\ ~orch_gate(orch.cfg, orch.lin[1]).ok ) =>
        /\ calls = <<>>
        /\ orch.stage \in {"returned", "raised"} =>
              /\ orch.stage = "returned"
              /\ orch_result.failure_reason = "LINEAGE_GATE_REJECTED"
              /\ orch_result.execution = None

\* C19: for every config and plan, a failing run terminates by returning an
\* OrchestratorResult with ok=false and a failure_reason of the
\* OrchestrationFailure enumeration (a crashed execution gives
\* EXECUTION_FAILED), never by raising.
C19_FailingRunReturns ==
    /\ orch.stage # "raised"
    /\ (orch.stage = "returned" /\ ~orch_result.ok) =>
          /\ orch_result.failure_reason \in OrchestrationFailure
          /\ orch_result.execution # None =>
                orch_result.failure_reason = "EXECUTION_FAILED"

\* The action names that make a step mutation-class, for the orchestrator
\* and for the executor's lineage gate.
MutationClassActions ==
    _MUTATION_ACTIONS
    \cup {"mutate_code", "mutate", "evolve", "autopromote", "autonomous_mutation"}

\* C29: under the monetizer archetype the action table handed to the
\* executor holds no mutate_code, generate_patch or other mutation-class
\* action, whatever was discovered, and no validate, run or postcheck is
\* invoked for a plan step that names one.
C29_MonetizerRunsNoMutationAction ==
    orch.archetype = "monetizer" =>
        /\ orch.actions # <<>> => orch.actions[1] \cap MutationClassActions = {}
        /\ \A i \in 1..Len(calls) :
              call.plan[calls[i].step].action \notin MutationClassActions

\* A monetizer run under an enabled mutation policy and a passing gate
\* returned: its scan_risks step went through its three stages, and its
\* mutate_code step crashed as an unknown action with no stage invoked.
C29_Witness ==
    /\ orch.archetype = "monetizer"
    /\ orch.stage = "returned"
    /\ mutation_enabled(orch.cfg)
    /\ orch.actions = <<{"scan_risks"}>>
    /\ Len(steps) = 2
    /\ call.plan[1].action = "scan_risks"
    /\ call.plan[2].action = "mutate_code"
    /\ steps[1].status = "ok"
    /\ steps[2].status = "crash"
    /\ Len(calls) = 3
    /\ \A i \in 1..Len(calls) : calls[i].step = 1

\* boot_sequence's "mutation_enabled": under an EVOLUTIONARY original policy
\* the gate is the readiness verdict, else the cryovant lineage gate.
boot_mutation_enabled_unenforced(c, lin) == mutation_enabled(c)

boot_mutation_enabled(c, lin) ==
    LET r == enforce_readiness_gate(c)
        gate_ok == IF c.mutation_policy = "evolutionary" THEN r.ok
                   ELSE orch_gate(r.cfg, lin).ok
    IN  mutation_enabled(r.cfg) /\ gate_ok

\* The dict boot_sequence returns, as far as it is read here: a frozen boot
\* returns early with "frozen" and "frozen_reason" and without
\* "mutation_enabled" (<<>>) and "freeze_reason".
boot_report(c, f, lin, structure_ok) ==
    LET config == enforce_readiness_gate(c).cfg
        boot == boot_sequence(c, f, structure_ok)
    IN  IF boot.frozen
        THEN [ok |-> FALSE, frozen |-> TRUE, mutation_enabled |-> <<>>,
              freeze_reason |-> "",
              frozen_reason |-> IF config.freeze_reason # "" THEN config.freeze_reason
                                ELSE IF config.emergency_halt THEN "EMERGENCY_HALT"
                                ELSE ""]
        ELSE [ok |-> boot.ok, frozen |-> FALSE,
              mutation_enabled |-> <<boot_mutation_enabled(c, lin)>>,
              freeze_reason |-> config.freeze_reason, frozen_reason |-> ""]

\* The configs boot and the executor are given: each policy, the readiness
\* signature missing, forged or valid, with agents on or off, the planner
\* limit valid or not.
ReadyCfgs ==
    {[DefaultConfig EXCEPT !.mutation_policy = p, !.readiness_gate_sig = sig,
                           !.agents_enabled = a, !.planner_max_steps = n] :
        p \in {"locked", "sandboxed", "evolutionary"},
        sig \in {None, ForgedReadinessSig, ValidReadinessSig},
        a \in BOOLEAN, n \in {0, 25}}

\* boot_sequence(cfg, evidence_store, lineage_hash): the config it was given,
\* the one readiness enforcement made of it, and what it raised or reported.
BootSequence(c, lin, structure_ok) ==
    /\ boot_out = <<>>
    /\ pc = "idle"
    /\ boot_out' =
          <<[cfg |-> c, config |-> enforce_readiness_gate(c).cfg,
             raises |-> boot_sequence(c, fs, structure_ok).raises,
             report |-> IF boot_sequence(c, fs, structure_ok).raises # <<>> THEN <<>>
                        ELSE <<boot_report(c, fs, lin, structure_ok)>>]>>
    /\ fs' = boot_sequence(c, fs, structure_ok).fs
    /\ UNCHANGED <<ledgerVars, execVars, pureVars, orch, extraVars>>

\* The executor is then called with the config boot was given.
BootExecute(entry, plan, ledger_required, lin) ==
    /\ boot_out # <<>>
    /\ ExecStart(entry, boot_out[1].cfg, plan, ledger_required, lin)

NextReady ==
    \/ \E c \in ReadyCfgs, lin \in OrchLineage, structure_ok \in BOOLEAN :
          BootSequence(c, lin, structure_ok)
    \/ /\ pc = "idle"
       /\ \E entry \in Entries, plan \in Plans, ledger_required \in BOOLEAN,
             lin \in LineageInputs : BootExecute(entry, plan, ledger_required, lin)
    \/ StepSkipped
    \/ StepUnknownAction
    \/ /\ in_loop
       /\ \E o \in StepOutcomes : StepExecuted(o[1], o[2], o[3], o[4])
    \/ /\ in_loop
       /\ \E out \in OutputSizes : StepRegisterRaises(out)
    \/ ExecReturn

SpecReady == Init /\ [][NextReady]_vars

\* The config boot and the executor were given is EVOLUTIONARY with a
\* readiness_gate_sig that is missing or is not the valid HMAC.
unverified_evolutionary ==
    /\ boot_out # <<>>
    /\ boot_out[1].cfg.mutation_policy = "evolutionary"
    /\ boot_out[1].cfg.readiness_gate_sig # ValidReadinessSig

\* Readiness enforcement locked the config with the reason of its signature,
\* the executor raised before any stage of any step, and no stage ever ran
\* under an EVOLUTIONARY config whose signature is not the valid one.
locked_and_never_run ==
    /\ unverified_evolutionary =>
          /\ boot_out[1].config.mutation_policy = "locked"
          /\ boot_out[1].config.freeze_reason =
                 IF boot_out[1].cfg.readiness_gate_sig = None
                 THEN "READINESS_GATE_SIGNATURE_MISSING"
                 ELSE "READINESS_GATE_SIGNATURE_INVALID"
          /\ pc # "idle" => pc = "raised" /\ calls = <<>> /\ steps = <<>>
    /\ calls # <<>> =>
          ~(/\ call.cfg.mutation_policy = "evolutionary"
            /\ call.cfg.readiness_gate_sig # ValidReadinessSig)

Ancestors == {"root", "other", "evil"}
LineageHashes == {hash_object([ancestor |-> a]) : a \in {"root", "other"}}

\* The mappings EvidenceStore(lineages) is built from: any node under any
\* key, whether or not the key is the node's hash.
StoreEntries ==
    [key : LineageHashes,
     node : [ancestor : Ancestors, hash : LineageHashes \cup {None}]]
StoreMappings ==
    {<<>>} \cup {<<e>> : e \in StoreEntries}
           \cup {m \in StoreEntries \X StoreEntries : m[1].key # m[2].key}

\* dict assignment: _lineages[key] = node
dict_set(lineages, key, node) ==
    IF \E i \in 1..Len(lineages) : lineages[i].key = key
    THEN [i \in 1..Len(lineages) |->
             IF lineages[i].key = key THEN [key |-> key, node |-> node] ELSE lineages[i]]
    ELSE Append(lineages, [key |-> key, node |-> node])

\* EvidenceStore.add_lineage: the hash it returns and the _lineages after it.
add_lineage(store_, payload) ==
    LET base == without(payload, "hash")
        lineage_hash == hash_object(base)
        record == [ancestor |-> base.ancestor, hash |-> lineage_hash]
    IN  [lineage_hash |-> lineage_hash,
         lineages |-> dict_set(store_.lineages, lineage_hash, record)]

\* The record of a call: its arguments, the node resolve_lineage returned
\* (<<>> for None) and the LineageGateResult of the gate.
GateCall(op, given, lineage_hash, node, gate) ==
    [op |-> op, given |-> given, lineage_hash |-> lineage_hash, node |-> node,
     gate |-> gate]

\* EvidenceStore(lineages)
StoreNew(lineages) ==
    /\ ~ev_store.present
    /\ gate_out = <<>>
    /\ ev_store' = [present |-> TRUE, lineages |-> lineages]
    /\ UNCHANGED <<fs, ledgerVars, execVars, pureVars, orch, boot_out, gate_out, conc,
                   planner>>

\* store.add_lineage(payload)
AddLineage(payload) ==
    /\ ev_store.present
    /\ ev_store' = [ev_store EXCEPT !.lineages = add_lineage(ev_store, payload).lineages]
    /\ gate_out' = <<GateCall("add_lineage", TRUE,
                              add_lineage(ev_store, payload).lineage_hash, <<>>, <<>>)>>
    /\ UNCHANGED <<fs, ledgerVars, execVars, pureVars, orch, boot_out, conc, planner>>

\* store.resolve_lineage(lineage_hash)
ResolveLineage(lineage_hash) ==
    /\ ev_store.present
    /\ gate_out' = <<GateCall("resolve_lineage", TRUE, lineage_hash,
                              resolve_lineage(ev_store, lineage_hash), <<>>)>>
    /\ UNCHANGED <<fs, ledgerVars, execVars, pureVars, orch, boot_out, ev_store, conc,
                   planner>>

\* cryovant_lineage_gate(evidence_store=..., lineage_hash=...), called with
\* the store or with None.
LineageGate(given, lineage_hash) ==
    /\ given => ev_store.present
    /\ gate_out' =
          <<GateCall("cryovant_lineage_gate", given, lineage_hash, <<>>,
                     <<cryovant_lineage_gate(IF given THEN ev_store ELSE NoStore,
                                             lineage_hash)>>)>>
    /\ UNCHANGED <<fs, ledgerVars, execVars, pureVars, orch, boot_out, ev_store, conc,
                   planner>>

NextStore ==
    \/ \E lineages \in StoreMappings : StoreNew(lineages)
    \/ \E payload \in [ancestor : Ancestors] \cup
                       [ancestor : Ancestors, hash : LineageHashes] : AddLineage(payload)
    \/ \E lineage_hash \in LineageHashes : ResolveLineage(lineage_hash)
    \/ \E given \in BOOLEAN, lineage_hash \in LineageHashes \cup BlankLineages \cup {None} :
          LineageGate(given, lineage_hash)

SpecStore == Init /\ [][NextStore]_vars

(***************************************************************************)
(* Properties of the evidence store.                                       *)
(***************************************************************************)
\* The nodes stored under a hash (at most one).
stored_under(h) ==
    {ev_store.lineages[i].node : i \in {j \in 1..Len(ev_store.lineages) :
                                           ev_store.lineages[j].key = h}}

\* C32 as stated: cryovant_lineage_gate returns ok=false with reason
\* cryovant_lineage_missing for a blank lineage hash,
\* cryovant_evidence_store_missing when no store is given,
\* cryovant_lineage_unknown when the store holds no entry for the hash and
\* cryovant_lineage_hash_mismatch when the stored node's recomputed hash
\* differs from the lineage hash; it returns ok=true, carrying the lineage
\* hash, only when none of these holds.
C32_GateReasons ==
    (gate_out # <<>> /\ gate_out[1].op = "cryovant_lineage_gate") =>
        LET h == gate_out[1].lineage_hash
            gate == gate_out[1].gate[1]
            failed(reason) == ~gate.ok /\ gate.reason = reason
        IN  IF h = None \/ h \in BlankLineages THEN failed("cryovant_lineage_missing")
            ELSE IF ~gate_out[1].given THEN failed("cryovant_evidence_store_missing")
            ELSE IF stored_under(h) = {} THEN failed("cryovant_lineage_unknown")
            ELSE IF \E node \in stored_under(h) : hash_object(without(node, "hash")) # h
            THEN failed("cryovant_lineage_hash_mismatch")
            ELSE gate.ok /\ gate.lineage_hash = h

\* C36: in every state of an EvidenceStore, resolve_lineage(h) returns a node
\* only if the node stored under h has a hash field equal to h and h equals
\* the recomputed hash of the node's body, and it then returns that node;
\* otherwise it returns null.
C36_ResolveOnlyMatchingContent ==
    (gate_out # <<>> /\ gate_out[1].op = "resolve_lineage") =>
        LET h == gate_out[1].lineage_hash
            matching == {node \in stored_under(h) :
                            /\ node.hash = h
                            /\ h = hash_object(without(node, "hash"))}
        IN  /\ gate_out[1].node # <<>> => gate_out[1].node[1] \in matching
            /\ gate_out[1].node = <<>> => matching = {}

\* A store built with a sound node under one key and, under the other key,
\* a node that is sound for the first: resolving the other key gives null.
C36_Witness ==
    /\ gate_out # <<>>
    /\ gate_out[1].op = "resolve_lineage"
    /\ gate_out[1].lineage_hash = UnknownLineage
    /\ gate_out[1].node = <<>>
    /\ Len(ev_store.lineages) = 2
    /\ ev_store.lineages[1] =
          [key |-> KnownLineage, node |-> [ancestor |-> "root", hash |-> KnownLineage]]
    /\ ev_store.lineages[2] =
          [key |-> UnknownLineage, node |-> [ancestor |-> "root", hash |-> KnownLineage]]

(***************************************************************************)
(* Concurrent append_event calls on one ledger file.                       *)
(* An append_event call reads the file in _last_hash and later appends its *)
(* line; between the two any other appender may run. conc.lock is the      *)
(* mutual-exclusion lock callers may wrap the call in ("" when free), and  *)
(* conc.procs the position of each appender: start, acquired, read,        *)
(* written, done, with the prev_hash it read and the event it built.       *)
(***************************************************************************)
Appenders == 1..MaxAppenders

ConcCfg == [DefaultConfig EXCEPT !.ledger_enabled = TRUE]

\* str(uuid4()) of each call: never the same twice.
uuid4 == [p \in 0..MaxAppenders |->
             IF p = 0 THEN "u0" ELSE IF p = 1 THEN "u1" ELSE IF p = 2 THEN "u2"
             ELSE IF p = 3 THEN "u3" ELSE "u4"]

\* The ledger before the appenders start: not created yet, or a file with
\* one event appended by an earlier call.
ConcLedgers ==
    { [parent |-> FALSE, kind |-> "absent", lines |-> <<>>],
      [parent |-> TRUE, kind |-> "file", lines |-> <<>>],
      [parent |-> TRUE, kind |-> "file",
       lines |-> <<canonical_json(build_event(ConcCfg, "alpha", [value |-> 1],
                                              "2024-01-01T00:00:00Z", "tester",
                                              uuid4[0], None))>>] }

proc_at(p, at) == conc.procs[p].pc = at

\* The caller takes the lock before it calls append_event.
Acquire(p) ==
    /\ conc # <<>>
    /\ proc_at(p, "start")
    /\ conc.lock = 0
    /\ conc' = [conc EXCEPT !.lock = p, !.procs[p].pc = "acquired"]
    /\ UNCHANGED <<fs, ledgerVars, execVars, pureVars, orch, boot_out, ev_store,
                   gate_out, planner>>

\* append_event up to prev_hash = _last_hash(path): ensure_ledger creates
\* the file, _last_hash reads it.
ReadLast(p, from) ==
    /\ conc # <<>>
    /\ proc_at(p, from)
    /\ append_raises(ConcCfg, fs) = ""
    /\ fs' = ensure_ledger_fs(ConcCfg, fs)
    /\ conc' = [conc EXCEPT !.procs[p].pc = "read",
                            !.procs[p].prev_hash = _last_hash(fs.lines)]
    /\ UNCHANGED <<ledgerVars, execVars, pureVars, orch, boot_out, ev_store, gate_out,
                   planner>>

\* append_event from the event it builds to the line it appends.
WriteEvent(p, event_type, to) ==
    /\ conc # <<>>
    /\ proc_at(p, "read")
    /\ LET event == build_event(ConcCfg, event_type, [value |-> 1],
                                "2024-01-01T00:00:00Z", "tester", uuid4[p],
                                conc.procs[p].prev_hash)
       IN  /\ fs' = [fs EXCEPT !.lines = Append(fs.lines, canonical_json(event))]
           /\ conc' = [conc EXCEPT !.procs[p].pc = to, !.procs[p].event = <<event>>]
    /\ UNCHANGED <<ledgerVars, execVars, pureVars, orch, boot_out, ev_store, gate_out,
                   planner>>

\* The caller releases the lock after append_event returned.
Release(p) ==
    /\ conc # <<>>
    /\ proc_at(p, "written")
    /\ conc.lock = p
    /\ conc' = [conc EXCEPT !.lock = 0, !.procs[p].pc = "done"]
    /\ UNCHANGED <<fs, ledgerVars, execVars, pureVars, orch, boot_out, ev_store,
                   gate_out, planner>>

InitConc ==
    /\ fs \in ConcLedgers
    /\ LedgerIdle
    /\ ExecIdle
    /\ PureIdle
    /\ orch = [stage |-> "idle", cfg |-> DefaultConfig, plan |-> <<>>, lin |-> <<>>,
               result |-> <<>>, exc |-> <<>>, archetype |-> "", actions |-> <<>>]
    /\ boot_out = <<>>
    /\ ev_store = [present |-> FALSE, lineages |-> <<>>]
    /\ gate_out = <<>>
    /\ planner = <<>>
    /\ conc = [lock |-> 0,
               procs |-> [p \in Appenders |->
                             [pc |-> "start", prev_hash |-> None, event |-> <<>>]]]

\* Every appender holds the lock across its read and its write.
NextLocked ==
    \/ \E p \in Appenders : Acquire(p)
    \/ \E p \in Appenders : ReadLast(p, "acquired")
    \/ \E p \in Appenders, event_type \in EventTypes : WriteEvent(p, event_type, "written")
    \/ \E p \in Appenders : Release(p)

SpecLocked == InitConc /\ [][NextLocked]_vars

\* No appender takes a lock.
NextUnlocked ==
    \/ \E p \in Appenders : ReadLast(p, "start")
    \/ \E p \in Appenders, event_type \in EventTypes : WriteEvent(p, event_type, "done")

SpecUnlocked == InitConc /\ [][NextUnlocked]_vars

(***************************************************************************)
(* Properties of concurrent appends.                                       *)
(***************************************************************************)
ledger_events == parse_lines(fs.lines)

\* How many lines of the file hold the event.
occurrences(event) ==
    Cardinality({i \in 1..Len(fs.lines) : fs.lines[i] = canonical_json(event)})

\* C33: if every appender holds one mutual-exclusion lock across both
\* reading the last line's hash and writing its own event, then for any
\* number of appenders and any interleaving the ledger contains every
\* appended event exactly once and satisfies verify_chain.
C33_LockedAppendsKeepChain ==
    conc # <<>> =>
        /\ verify_chain(ledger_events)
        /\ \A p \in Appenders :
               conc.procs[p].event # <<>> => occurrences(conc.procs[p].event[1]) = 1
        /\ Len(fs.lines) <= 1 + Cardinality({p \in Appenders : conc.procs[p].event # <<>>})

\* All appenders have appended after an earlier event, the second before
\* the first and the third.
C33_Witness ==
    /\ conc # <<>>
    /\ \A p \in Appenders : proc_at(p, "done")
    /\ conc.lock = 0
    /\ Len(fs.lines) = MaxAppenders + 1
    /\ ledger_events[1].event_id = uuid4[0]
    /\ ledger_events[2].event_id = uuid4[2]
    /\ ledger_events[2].prev_hash = ledger_events[1].hash
    /\ verify_chain(ledger_events)

\* Two events of the file carry the same prev_hash.
forked ==
    \E i, j \in 1..Len(fs.lines) :
        i < j /\ ledger_events[i].prev_hash = ledger_events[j].prev_hash

\* C40: without mutual exclusion two append_event calls can both read the
\* same last hash before either writes its event; the file then holds two
\* events with equal prev_hash, and verify_chain over it returns false.
C40_UnlockedAppendsFork ==
    conc # <<>> =>
        /\ (\E p, q \in Appenders :
               /\ p # q
               /\ proc_at(p, "done") /\ proc_at(q, "done")
               /\ conc.procs[p].prev_hash = conc.procs[q].prev_hash) => forked
        /\ forked => ~verify_chain(ledger_events)

\* Appenders 1 and 2 both read the hash of the earlier event, then both
\* wrote: two events with that prev_hash, and the chain no longer verifies.
C40_Witness ==
    /\ conc # <<>>
    /\ proc_at(1, "done") /\ proc_at(2, "done") /\ proc_at(3, "start")
    /\ Len(fs.lines) = 3
    /\ ledger_events[1].event_id = uuid4[0]
    /\ conc.procs[1].prev_hash = ledger_events[1].hash
    /\ conc.procs[2].prev_hash = ledger_events[1].hash
    /\ ledger_events[2].prev_hash = ledger_events[3].prev_hash
    /\ ~verify_chain(ledger_events)

(***************************************************************************)
(* The planner: make_plan.                                                 *)
(* Cost hints and seconds are in hundredths. The monotonic clock is given  *)
(* by what now() - start reads at each check of the loop: 0 before check   *)
(* number late_from, and late from then on.                                *)
(***************************************************************************)
\* An ActionSpec with all its fields.
PlannedAction(id, action, params, preconditions, effects, cost_hint) ==
    [id |-> id, action |-> action, params |-> params, preconditions |-> preconditions,
     effects |-> effects, cost_hint |-> cost_hint]

\* goal.strip()
strip(goal) == IF goal \in {"", "  "} THEN "" ELSE goal

\* _base_actions: the six candidate actions of a goal, none for a blank one
\* (the list passes validate_action_spec_list).
_base_actions(goal) ==
    LET normalized == strip(goal)
    IN  IF normalized = "" THEN <<>>
        ELSE << PlannedAction("clarify", "clarify_goal", [goal |-> normalized],
                              <<>>, <<"goal_clarity">>, 5),
                PlannedAction("constraints", "identify_constraints", [goal |-> normalized],
                              <<"goal_clarity">>, <<"constraints_noted">>, 25),
                PlannedAction("context", "survey_context",
                              [goal |-> normalized, depth |-> "light"],
                              <<"constraints_noted">>, <<"context_profiled">>, 125),
                PlannedAction("options", "propose_actions",
                              [goal |-> normalized, fanout |-> 3],
                              <<"constraints_noted">>, <<"options_listed">>, 80),
                PlannedAction("select", "select_minimum_path",
                              [goal |-> normalized, preference |-> "credibility_first"],
                              <<"options_listed">>, <<"plan_candidate">>, 35),
                PlannedAction("report", "finalize_report", [goal |-> normalized],
                              <<"plan_candidate">>, <<"report_ready">>, 15) >>

\* _filter_for_tier: the actions whose cost is within the tier's cutoff.
_filter_for_tier(actions, tier) ==
    SelectSeq(actions,
              LAMBDA action : IF tier = "mobile" THEN action.cost_hint <= 100
                              ELSE IF tier = "edge" THEN action.cost_hint <= 200
                              ELSE TRUE)

\* now() - start at the i-th check of the loop.
elapsed(clock, i) == IF i < clock.late_from THEN 0 ELSE clock.late

_apply_limits_inclusive(actions, c, clock) ==
    LET stops == {i \in 1..Len(actions) :
                     \/ elapsed(clock, i) > c.planner_max_seconds
                     \/ i - 1 > c.planner_max_steps}
        stop == IF stops = {} THEN Len(actions) + 1
                ELSE CHOOSE i \in stops : \A j \in stops : i <= j
        timed == stop <= Len(actions) /\ elapsed(clock, stop) > c.planner_max_seconds
    IN  [bounded |-> SubSeq(actions, 1, stop - 1),
         time_capped |-> timed,
         truncated |-> stop <= Len(actions) /\ ~timed]

\* _apply_limits: the loop breaks at the first action at which the clock is
\* over the budget (time_capped) or, checked after it, the step cap is
\* reached (truncated); the actions before it are kept.
_apply_limits(actions, c, clock) ==
    LET stops == {i \in 1..Len(actions) :
                     \/ elapsed(clock, i) > c.planner_max_seconds
                     \/ i - 1 >= c.planner_max_steps}
        stop == IF stops = {} THEN Len(actions) + 1
                ELSE CHOOSE i \in stops : \A j \in stops : i <= j
        timed == stop <= Len(actions) /\ elapsed(clock, stop) > c.planner_max_seconds
    IN  [bounded |-> SubSeq(actions, 1, stop - 1),
         time_capped |-> timed,
         truncated |-> stop <= Len(actions) /\ ~timed]

\* _assign_ids: act-001, act-002, ...
_assign_ids(actions) ==
    LET numbered == <<"act-001", "act-002", "act-003", "act-004", "act-005", "act-006",
                      "act-007">>
    IN  [i \in 1..Len(actions) |-> [actions[i] EXCEPT !.id = numbered[i]]]

\* make_plan: the exception it raises, or the Plan it returns.
make_plan(goal, c, clock) ==
    IF validate(c) # <<>> THEN [raises |-> validate(c), plan |-> <<>>]
    ELSE LET filtered == _filter_for_tier(_base_actions(goal), c.resource_tier)
             limited == _apply_limits(filtered, c, clock)
         IN  [raises |-> <<>>,
              plan |-> <<[goal |-> goal, steps |-> _assign_ids(limited.bounded),
                          meta |-> [truncated |-> limited.truncated,
                                    time_capped |-> limited.time_capped,
                                    tier |-> c.resource_tier]]>>]

\* The calls: a blank or a real goal, each tier, step caps from invalid to
\* above the number of candidates, the smallest and the default time
\* budget, and a clock that passes 0.01 s, 0.02 s or 300.01 s at any check.
PlannerCfgs ==
    {[DefaultConfig EXCEPT !.resource_tier = tier, !.planner_max_steps = n,
                           !.planner_max_seconds = secs] :
        tier \in {"mobile", "edge", "server"}, n \in {0, 1, 2, 5, 25}, secs \in {1, 200}}
PlannerClocks == [late_from : 1..7, late : {1, 2, 30001}]
PlannerInputs == [goal : {"", "  ", "ship"}, cfg : PlannerCfgs, clock : PlannerClocks]

\* make_plan(goal, cfg)
MakePlan ==
    /\ planner # <<>>
    /\ planner.out = <<>>
    /\ planner' = [planner EXCEPT
                      !.out = <<make_plan(planner.in.goal, planner.in.cfg,
                                          planner.in.clock)>>]
    /\ UNCHANGED <<fs, ledgerVars, execVars, pureVars, orch, boot_out, ev_store,
                   gate_out, conc>>

InitPlan ==
    /\ fs = [parent |-> FALSE, kind |-> "absent", lines |-> <<>>]
    /\ LedgerIdle
    /\ ExecIdle
    /\ PureIdle
    /\ orch = [stage |-> "idle", cfg |-> DefaultConfig, plan |-> <<>>, lin |-> <<>>,
               result |-> <<>>, exc |-> <<>>, archetype |-> "", actions |-> <<>>]
    /\ boot_out = <<>>
    /\ ev_store = [present |-> FALSE, lineages |-> <<>>]
    /\ gate_out = <<>>
    /\ conc = <<>>
    /\ planner \in [in : PlannerInputs, out : {<<>>}]

NextPlan == MakePlan

SpecPlan == InitPlan /\ [][NextPlan]_vars

(***************************************************************************)
(* Properties of make_plan.                                                *)
(***************************************************************************)
\* The candidates of the call: the base actions the tier filter keeps.
candidates ==
    _filter_for_tier(_base_actions(planner.in.goal), planner.in.cfg.resource_tier)

\* The first check of the loop, over the candidates, at which the clock is
\* over the budget; 0 when there is none.
first_late ==
    LET late == {i \in 1..Len(candidates) :
                    elapsed(planner.in.clock, i) > planner.in.cfg.planner_max_seconds}
    IN  IF late = {} THEN 0 ELSE CHOOSE i \in late : \A j \in late : i <= j

\* C35: make_plan never fails because a budget is exceeded (it raises only
\* what cfg.validate() raises) and never returns more than
\* cfg.planner_max_steps steps; the steps are the first candidates, and when
\* candidates are dropped by the step cap meta.truncated is true, when they
\* are dropped by the wall clock meta.time_capped is true, and when none is
\* dropped neither is. Candidates are dropped by the wall clock when the
\* clock is over the budget at a check no later than the one after the last
\* step the cap allows (the clock is read before the cap at each check), and
\* by the step cap when they are not and outnumber the cap.
C35_BudgetsCapThePlan ==
    (planner # <<>> /\ planner.out # <<>>) =>
        LET out == planner.out[1]
            c == planner.in.cfg
        IN  /\ out.raises = validate(c)
            /\ out.raises = <<>> =>
                  LET plan == out.plan[1]
                      kept == Len(plan.steps)
                      by_clock == first_late # 0 /\ first_late <= c.planner_max_steps + 1
                      by_cap == ~by_clock /\ Len(candidates) > c.planner_max_steps
                  IN  /\ kept <= c.planner_max_steps
                      /\ c.planner_max_steps = 1 => kept <= 1
                      /\ kept <= Len(candidates)
                      /\ \A i \in 1..kept :
                            plan.steps[i].action = candidates[i].action
                      /\ by_clock => plan.meta.time_capped /\ kept = first_late - 1
                      /\ by_cap => plan.meta.truncated /\ kept = c.planner_max_steps
                      /\ kept < Len(candidates) =>
                            plan.meta.truncated \/ plan.meta.time_capped
                      /\ kept = Len(candidates) =>
                            ~plan.meta.truncated /\ ~plan.meta.time_capped

\* planner_max_steps = 1 on a mobile tier with a clock that stays within the
\* budget: one step, renumbered act-001, truncated and not time_capped.
C35_Witness ==
    /\ planner # <<>>
    /\ planner.out # <<>>
    /\ planner.out[1].raises = <<>>
    /\ planner.in.cfg.planner_max_steps = 1
    /\ planner.in.cfg.resource_tier = "mobile"
    /\ Len(candidates) = 5
    /\ first_late = 0
    /\ Len(planner.out[1].plan[1].steps) = 1
    /\ planner.out[1].plan[1].steps[1].id = "act-001"
    /\ planner.out[1].plan[1].meta.truncated
    /\ ~planner.out[1].plan[1].meta.time_capped

(***************************************************************************)
(* Kernel schema validators. Each gives the code of the KernelCrash it     *)
(* raises, "" when it returns. A value whose JSON type a validator tests   *)
(* is a pair <<type, value>>; the other fields have their schema's type.   *)
(***************************************************************************)
Bool(b) == <<"bool", b>>
Str(x) == <<"str", x>>

\* _require_fields
_require_fields(obj, fields) ==
    IF fields \subseteq DOMAIN obj THEN "" ELSE EVIDENCE_MISSING

validate_authority_source(obj) ==
    IF _require_fields(obj, {"type", "version", "authority_domain", "scope", "mandate"}) # ""
    THEN EVIDENCE_MISSING
    ELSE IF obj.type # "AuthoritySource" THEN INTEGRITY_VIOLATION
    ELSE IF obj.authority_domain = "" THEN INTEGRITY_VIOLATION
    ELSE IF obj.mandate = "" THEN INTEGRITY_VIOLATION
    ELSE IF ~({"can_execute", "can_issue_capabilities"} \subseteq DOMAIN obj.scope)
    THEN EVIDENCE_MISSING
    ELSE IF obj.scope.can_execute[1] # "bool" THEN INTEGRITY_VIOLATION
    ELSE IF obj.scope.can_issue_capabilities[1] # "bool" THEN INTEGRITY_VIOLATION
    ELSE ""

validate_proposal(obj) ==
    IF _require_fields(obj, {"type", "version", "proposal_kind"}) # "" THEN EVIDENCE_MISSING
    ELSE IF obj.type # "Proposal" THEN INTEGRITY_VIOLATION
    ELSE IF obj.proposal_kind = "adapter_call"
    THEN _require_fields(obj, {"adapter", "intent", "inputs", "requested_effects",
                               "counterfactual_budget"})
    ELSE ""

validate_gate_result(obj) ==
    IF _require_fields(obj, {"type", "version", "gate_id", "result", "deterministic"}) # ""
    THEN EVIDENCE_MISSING
    ELSE IF obj.type # "GateResult" THEN INTEGRITY_VIOLATION
    ELSE IF obj.result \notin {"PASS", "FAIL"} THEN DETERMINISM_BREACH
    ELSE IF obj.deterministic # TRUE THEN DETERMINISM_BREACH
    ELSE ""

validate_capability_token(obj) ==
    IF _require_fields(obj, {"type", "version", "authority_hash", "decay_only", "limits",
                             "scopes"}) # ""
    THEN EVIDENCE_MISSING
    ELSE IF obj.type # "CapabilityToken" THEN INTEGRITY_VIOLATION
    ELSE IF obj.decay_only # TRUE THEN INTEGRITY_VIOLATION
    ELSE IF ~({"expires_at", "max_calls"} \subseteq DOMAIN obj.limits) THEN EVIDENCE_MISSING
    ELSE IF obj.limits.max_calls < 1 THEN INTEGRITY_VIOLATION
    ELSE IF obj.scopes = <<>> THEN INTEGRITY_VIOLATION
    ELSE ""

validate_counterfactual_summary(obj) ==
    IF _require_fields(obj, {"type", "version", "budget", "rejected",
                             "unlisted_commitment"}) # ""
    THEN EVIDENCE_MISSING
    ELSE IF obj.type # "CounterfactualSummary" THEN INTEGRITY_VIOLATION
    ELSE IF obj.budget < 0 THEN INTEGRITY_VIOLATION
    ELSE IF Len(obj.rejected) > obj.budget THEN INTEGRITY_VIOLATION
    ELSE IF \E i \in 1..Len(obj.rejected) :
               ~({"alt", "reason"} \subseteq DOMAIN obj.rejected[i])
    THEN EVIDENCE_MISSING
    ELSE ""

validate_evidence_bundle(obj) ==
    IF _require_fields(obj, {"type", "version", "authority_hash", "proposal_hash",
                             "gate_result_hashes", "capability_hashes",
                             "counterfactual_hash", "will_emit_execution_record"}) # ""
    THEN EVIDENCE_MISSING
    ELSE IF obj.type # "EvidenceBundle" THEN INTEGRITY_VIOLATION
    ELSE IF obj.will_emit_execution_record[1] # "bool" THEN INTEGRITY_VIOLATION
    ELSE ""

(***************************************************************************)
(* The admissibility kernel.                                               *)
(***************************************************************************)
\* attach_hash
attach_hash(obj) ==
    [k \in DOMAIN obj \cup {"hash"} |-> IF k = "hash" THEN hash_object(obj) ELSE obj[k]]

\* The resolver: a store of nodes looked up by their hash field; <<node>>, or
\* <<>> for None.
resolver(store, h) ==
    LET hits == SelectSeq(store, LAMBDA n : n.hash = h)
    IN  IF hits = <<>> THEN <<>> ELSE <<hits[1]>>

node_hash_unchecked(node, expected_hash) == TRUE

\* _resolve: the recomputed hash of the node against the expected one.
node_hash_matches(node, expected_hash) ==
    hash_object(without(node, "hash")) = expected_hash

\* _resolve: the code of the KernelCrash it raises ("" when none) and the node.
_resolve(store, expected_hash) ==
    IF expected_hash = None THEN [code |-> EVIDENCE_MISSING, node |-> <<>>]
    ELSE LET node == resolver(store, expected_hash)
         IN  IF node = <<>> THEN [code |-> EVIDENCE_MISSING, node |-> <<>>]
             ELSE IF ~node_hash_matches(node[1], expected_hash)
             THEN [code |-> INTEGRITY_VIOLATION, node |-> <<>>]
             ELSE [code |-> "", node |-> node]

last_code(codes) ==
    IF \A i \in 1..Len(codes) : codes[i] = "" THEN ""
    ELSE codes[CHOOSE i \in 1..Len(codes) :
                  codes[i] # "" /\ \A j \in (i + 1)..Len(codes) : codes[j] = ""]

\* The first code of a sequence of codes that is not "", "" when none is.
first_code(codes) ==
    IF \A i \in 1..Len(codes) : codes[i] = "" THEN ""
    ELSE codes[CHOOSE i \in 1..Len(codes) :
                  codes[i] # "" /\ \A j \in 1..(i - 1) : codes[j] = ""]

\* One iteration of the gate loop: resolve, validate.
gate_code(store, gate_hash) ==
    LET r == _resolve(store, gate_hash)
    IN  IF r.code # "" THEN r.code ELSE validate_gate_result(r.node[1])

\* One iteration of the capability loop: resolve, validate, authority match.
capability_code(store, cap_hash, authority_hash) ==
    LET r == _resolve(store, cap_hash)
    IN  IF r.code # "" THEN r.code
        ELSE IF validate_capability_token(r.node[1]) # ""
        THEN validate_capability_token(r.node[1])
        ELSE IF r.node[1].authority_hash # authority_hash THEN INTEGRITY_VIOLATION
        ELSE ""

gate_precedes_authority(authority_denied, gate_failed) ==
    IF gate_failed THEN "GATE_FAIL"
    ELSE IF authority_denied THEN "AUTHORITY_DENIED"
    ELSE ""

\* _evaluate: refusal_mode from the two flags ("" for None).
refusal_of(authority_denied, gate_failed) ==
    IF authority_denied THEN "AUTHORITY_DENIED"
    ELSE IF gate_failed THEN "GATE_FAIL"
    ELSE ""

admissible_unless_denied(mode) == mode # "AUTHORITY_DENIED"

\* _evaluate: admissible = refusal_mode is None.
admissible_of(mode) == mode = ""

emits_record_assumed(bundle) == TRUE

\* bundle.get("will_emit_execution_record") is True
emits_record(bundle) == bundle.will_emit_execution_record = Bool(TRUE)

\* _evaluate: the code of the KernelCrash it raises ("" when it returns),
\* and the pair (admissible, refusal_mode) it returns.
_evaluate(bundle, store) ==
    LET Raise(code) == [crash |-> code, admissible |-> FALSE, refusal_mode |-> ""]
    IN
    IF "hash" \notin DOMAIN bundle THEN Raise(EVIDENCE_MISSING)
    ELSE IF bundle.hash # hash_object(without(bundle, "hash"))
    THEN Raise(INTEGRITY_VIOLATION)
    ELSE IF validate_evidence_bundle(bundle) # "" THEN Raise(validate_evidence_bundle(bundle))
    ELSE
    LET authority == _resolve(store, bundle.authority_hash) IN
    IF authority.code # "" THEN Raise(authority.code)
    ELSE IF validate_authority_source(authority.node[1]) # ""
    THEN Raise(validate_authority_source(authority.node[1]))
    ELSE
    LET authority_denied == authority.node[1].scope.can_execute = Bool(FALSE)
        proposal == _resolve(store, bundle.proposal_hash)
    IN
    IF proposal.code # "" THEN Raise(proposal.code)
    ELSE IF validate_proposal(proposal.node[1]) # ""
    THEN Raise(validate_proposal(proposal.node[1]))
    ELSE
    LET counterfactual == _resolve(store, bundle.counterfactual_hash) IN
    IF counterfactual.code # "" THEN Raise(counterfactual.code)
    ELSE IF validate_counterfactual_summary(counterfactual.node[1]) # ""
    THEN Raise(validate_counterfactual_summary(counterfactual.node[1]))
    ELSE
    LET gate_hashes == bundle.gate_result_hashes
        gate_codes == [i \in 1..Len(gate_hashes) |-> gate_code(store, gate_hashes[i])]
    IN
    IF first_code(gate_codes) # "" THEN Raise(first_code(gate_codes))
    ELSE
    LET gate_failed == \E i \in 1..Len(gate_hashes) :
                          _resolve(store, gate_hashes[i]).node[1].result = "FAIL"
        capability_hashes == bundle.capability_hashes
        capability_codes ==
            [i \in 1..Len(capability_hashes) |->
                capability_code(store, capability_hashes[i], bundle.authority_hash)]
    IN
    IF first_code(capability_codes) # "" THEN Raise(first_code(capability_codes))
    ELSE IF ~emits_record(bundle) THEN Raise(UNLOGGED_EXECUTION)
    ELSE
    LET mode == refusal_of(authority_denied, gate_failed)
    IN  [crash |-> "", admissible |-> admissible_of(mode), refusal_mode |-> mode]

\* The inputs of the calls. Each names the nodes the bundle points at, how the
\* bundle's own hash field stands, and one fault of the resolver: the first
\* node of a kind missing, or altered after it was hashed.
AuthorityKinds == {"permit", "deny", "can_execute_not_bool", "no_mandate"}
ProposalKinds == {"patch", "adapter_call_incomplete"}
CounterfactualKinds == {"within_budget", "over_budget"}
GateKinds == {"PASS", "FAIL", "nondeterministic"}
CapabilitySeqs ==
    {<<>>, <<"valid">>, <<"other_authority">>, <<"valid", "not_decay_only">>}
NoFault == [at |-> "none", how |-> "none"]
Faults ==
    {NoFault} \cup [at : {"authority", "proposal", "counterfactual", "gate", "capability"},
                    how : {"missing", "tampered"}]
AdmShapes ==
    [authority : AuthorityKinds, proposal : ProposalKinds,
     counterfactual : CounterfactualKinds,
     gates : UNION {[1..n -> GateKinds] : n \in 0..MaxGates},
     capabilities : CapabilitySeqs, will_emit : BOOLEAN,
     bundle_hash : {"valid", "wrong", "absent"}, fault : Faults]

\* In how many places an input makes the kernel raise.
departures(in) ==
    LET b(x) == IF x THEN 1 ELSE 0
    IN  b(in.authority \in {"can_execute_not_bool", "no_mandate"})
        + b(in.proposal # "patch") + b(in.counterfactual # "within_budget")
        + b(\E i \in 1..Len(in.gates) : in.gates[i] = "nondeterministic")
        + b(\E i \in 1..Len(in.capabilities) : in.capabilities[i] # "valid")
        + b(~in.will_emit) + b(in.bundle_hash # "valid") + b(in.fault # NoFault)

\* The inputs drawn on: any authority verdict and gate results, and up to two
\* places that make the kernel raise.
AdmInputs == {in \in AdmShapes : departures(in) <= 2}

authority_node(kind) ==
    attach_hash(
        [type |-> "AuthoritySource", version |-> "1", authority_domain |-> "ops",
         mandate |-> IF kind = "no_mandate" THEN "" ELSE "operate",
         scope |-> [can_execute |-> IF kind = "deny" THEN Bool(FALSE)
                                    ELSE IF kind = "can_execute_not_bool" THEN Str("false")
                                    ELSE Bool(TRUE),
                    can_issue_capabilities |-> Bool(TRUE)]])

proposal_node(kind) ==
    attach_hash(
        IF kind = "patch"
        THEN [type |-> "Proposal", version |-> "1", proposal_kind |-> "patch"]
        ELSE [type |-> "Proposal", version |-> "1", proposal_kind |-> "adapter_call",
              adapter |-> "shell"])

counterfactual_node(kind) ==
    attach_hash(
        [type |-> "CounterfactualSummary", version |-> "1",
         budget |-> IF kind = "over_budget" THEN 0 ELSE 1,
         rejected |-> <<[alt |-> "wait", reason |-> "slower"]>>,
         unlisted_commitment |-> "none"])

gate_node(kind, gate_id) ==
    attach_hash(
        [type |-> "GateResult", version |-> "1", gate_id |-> gate_id,
         result |-> IF kind = "FAIL" THEN "FAIL" ELSE "PASS",
         deterministic |-> kind # "nondeterministic"])

capability_node(kind, authority_hash, max_calls) ==
    attach_hash(
        [type |-> "CapabilityToken", version |-> "1",
         authority_hash |-> IF kind = "other_authority"
                            THEN authority_node("no_mandate").hash ELSE authority_hash,
         decay_only |-> kind # "not_decay_only",
         limits |-> [expires_at |-> "2030-01-01T00:00:00Z", max_calls |-> max_calls],
         scopes |-> <<"read">>])

\* The nodes an input's bundle points at, by kind.
gate_nodes(in) == [i \in 1..Len(in.gates) |-> gate_node(in.gates[i], i)]
capability_nodes(in) ==
    [i \in 1..Len(in.capabilities) |->
        capability_node(in.capabilities[i], authority_node(in.authority).hash, i)]

\* The evidence bundle of an input.
bundle_of(in) ==
    LET base ==
            [type |-> "EvidenceBundle", version |-> "1",
             authority_hash |-> authority_node(in.authority).hash,
             proposal_hash |-> proposal_node(in.proposal).hash,
             counterfactual_hash |-> counterfactual_node(in.counterfactual).hash,
             gate_result_hashes |-> [i \in 1..Len(in.gates) |-> gate_nodes(in)[i].hash],
             capability_hashes |->
                 [i \in 1..Len(in.capabilities) |-> capability_nodes(in)[i].hash],
             will_emit_execution_record |-> Bool(in.will_emit)]
    IN  IF in.bundle_hash = "absent" THEN base
        ELSE IF in.bundle_hash = "wrong"
        THEN [k \in DOMAIN base \cup {"hash"} |->
                 IF k = "hash" THEN hash_object([type |-> "EvidenceBundle"]) ELSE base[k]]
        ELSE attach_hash(base)

\* The nodes of one kind as the resolver holds them.
held(in, at, nodes) ==
    IF in.fault.at # at \/ nodes = <<>> THEN nodes
    ELSE IF in.fault.how = "missing" THEN Tail(nodes)
    ELSE <<[nodes[1] EXCEPT !.version = "1-altered"]>> \o Tail(nodes)

\* The resolver's store for an input.
store_of(in) ==
    held(in, "authority", <<authority_node(in.authority)>>)
    \o held(in, "proposal", <<proposal_node(in.proposal)>>)
    \o held(in, "counterfactual", <<counterfactual_node(in.counterfactual)>>)
    \o held(in, "gate", gate_nodes(in))
    \o held(in, "capability", capability_nodes(in))

NotCalled == [is_admissible |-> <<>>, refusal_mode |-> <<>>]

\* is_admissible(bundle, resolver)
IsAdmissible ==
    /\ adm_out.is_admissible = <<>>
    /\ LET r == _evaluate(bundle_of(adm_in), store_of(adm_in))
       IN  adm_out' = [adm_out EXCEPT
                          !.is_admissible = <<[crash |-> r.crash, value |-> r.admissible]>>]
    /\ UNCHANGED <<fs, ledgerVars, execVars, adm_in, cfg_in, cfg_out, mapVars, mutVars,
                   orchVars>>

\* refusal_mode(bundle, resolver)
RefusalMode ==
    /\ adm_out.refusal_mode = <<>>
    /\ LET r == _evaluate(bundle_of(adm_in), store_of(adm_in))
       IN  adm_out' = [adm_out EXCEPT
                          !.refusal_mode = <<[crash |-> r.crash, value |-> r.refusal_mode]>>]
    /\ UNCHANGED <<fs, ledgerVars, execVars, adm_in, cfg_in, cfg_out, mapVars, mutVars,
                   orchVars>>

InitAdm ==
    /\ fs = [parent |-> FALSE, kind |-> "absent", lines |-> <<>>]
    /\ LedgerIdle
    /\ ExecIdle
    /\ OrchIdle
    /\ OtherIdle
    /\ adm_in \in AdmInputs
    /\ adm_out = NotCalled
    /\ cfg_in = <<>>
    /\ cfg_out = <<>>

NextAdm == IsAdmissible \/ RefusalMode

SpecAdm == InitAdm /\ [][NextAdm]_vars

(***************************************************************************)
(* Claims about the admissibility kernel.                                  *)
(***************************************************************************)
\* The resolver returns a node for h whose recomputed hash is h.
resolves_intact(h) ==
    LET node == resolver(store_of(adm_in), h)
    IN  node # <<>> /\ hash_object(without(node[1], "hash")) = h

\* The node the resolver returns for h.
resolved(h) == resolver(store_of(adm_in), h)[1]

\* Everything C3 lists as necessary for admissibility, read off the bundle
\* and the resolver.
admissibility_conditions ==
    LET bundle == bundle_of(adm_in)
    IN  /\ "hash" \in DOMAIN bundle
        /\ bundle.hash = hash_object(without(bundle, "hash"))
        /\ resolves_intact(bundle.authority_hash)
        /\ validate_authority_source(resolved(bundle.authority_hash)) = ""
        /\ resolves_intact(bundle.proposal_hash)
        /\ validate_proposal(resolved(bundle.proposal_hash)) = ""
        /\ resolves_intact(bundle.counterfactual_hash)
        /\ validate_counterfactual_summary(resolved(bundle.counterfactual_hash)) = ""
        /\ \A i \in 1..Len(bundle.gate_result_hashes) :
              LET h == bundle.gate_result_hashes[i]
              IN  /\ resolves_intact(h)
                  /\ validate_gate_result(resolved(h)) = ""
                  /\ resolved(h).deterministic = TRUE
                  /\ resolved(h).result # "FAIL"
        /\ \A i \in 1..Len(bundle.capability_hashes) :
              LET h == bundle.capability_hashes[i]
              IN  /\ resolves_intact(h)
                  /\ validate_capability_token(resolved(h)) = ""
                  /\ resolved(h).authority_hash = bundle.authority_hash
        /\ bundle.will_emit_execution_record = Bool(TRUE)
        /\ resolved(bundle.authority_hash).scope.can_execute = Bool(TRUE)

\* C3: is_admissible returns true only if the bundle hash matches, every
\* referenced node resolves with a matching recomputed hash and passes its
\* schema validation, every capability carries the bundle's authority hash,
\* every gate is deterministic and none is FAIL, will_emit_execution_record
\* is true and the authority permits execution; otherwise it raises a
\* KernelCrash or returns false.
C3_AdmissibleOnlyIfAllHold ==
    adm_out.is_admissible # <<>> =>
        LET r == adm_out.is_admissible[1]
        IN  /\ (r.crash = "" /\ r.value) => admissibility_conditions
            /\ ~admissibility_conditions =>
                  \/ r.crash \in {INTEGRITY_VIOLATION, EVIDENCE_MISSING,
                                  DETERMINISM_BREACH, UNLOGGED_EXECUTION}
                  \/ r.crash = "" /\ r.value = FALSE

\* is_admissible returned true for a bundle with a gate and a capability.
C3_Witness ==
    /\ adm_out.is_admissible # <<>>
    /\ adm_out.is_admissible[1].crash = ""
    /\ adm_out.is_admissible[1].value
    /\ Len(adm_in.gates) >= 1
    /\ Len(adm_in.capabilities) >= 1

\* C4: when evaluation returns, an authority whose can_execute is false gives
\* refusal_mode AUTHORITY_DENIED whether or not a gate is FAIL, and GATE_FAIL
\* is given only when the authority permits execution and a gate is FAIL.
C4_AuthorityDenialPrecedes ==
    (adm_out.refusal_mode # <<>> /\ adm_out.refusal_mode[1].crash = "") =>
        LET bundle == bundle_of(adm_in)
            can_execute == resolved(bundle.authority_hash).scope.can_execute
            mode == adm_out.refusal_mode[1].value
        IN  /\ can_execute = Bool(FALSE) => mode = "AUTHORITY_DENIED"
            /\ mode = "GATE_FAIL" =>
                  /\ can_execute = Bool(TRUE)
                  /\ \E i \in 1..Len(bundle.gate_result_hashes) :
                        resolved(bundle.gate_result_hashes[i]).result = "FAIL"

\* refusal_mode gave AUTHORITY_DENIED for a denying authority with a FAIL gate.
C4_Witness ==
    /\ adm_out.refusal_mode # <<>>
    /\ adm_out.refusal_mode[1].crash = ""
    /\ adm_out.refusal_mode[1].value = "AUTHORITY_DENIED"
    /\ adm_in.authority = "deny"
    /\ \E i \in 1..Len(adm_in.gates) : adm_in.gates[i] = "FAIL"

\* C5: when neither call raises, is_admissible is true exactly when
\* refusal_mode is None, and when it is false refusal_mode is AUTHORITY_DENIED
\* or GATE_FAIL.
C5_AdmissibleIffNoRefusal ==
    (/\ adm_out.is_admissible # <<>>
     /\ adm_out.refusal_mode # <<>>
     /\ adm_out.is_admissible[1].crash = ""
     /\ adm_out.refusal_mode[1].crash = "") =>
        /\ adm_out.is_admissible[1].value <=> adm_out.refusal_mode[1].value = ""
        /\ ~adm_out.is_admissible[1].value =>
              adm_out.refusal_mode[1].value \in {"AUTHORITY_DENIED", "GATE_FAIL"}

\* Both calls returned, is_admissible false and refusal_mode GATE_FAIL.
C5_Witness ==
    /\ adm_out.is_admissible # <<>>
    /\ adm_out.refusal_mode # <<>>
    /\ adm_out.is_admissible[1].crash = ""
    /\ adm_out.is_admissible[1].value = FALSE
    /\ adm_out.refusal_mode[1].crash = ""
    /\ adm_out.refusal_mode[1].value = "GATE_FAIL"

\* The bundle's hash matches and every node it references resolves intact and
\* is valid: it passes its schema validation (a gate result is PASS or FAIL
\* and deterministic) and a capability token carries the bundle's authority
\* hash, which is how a valid token is defined.
nodes_resolve_and_validate ==
    LET bundle == bundle_of(adm_in)
    IN  /\ "hash" \in DOMAIN bundle
        /\ bundle.hash = hash_object(without(bundle, "hash"))
        /\ resolves_intact(bundle.authority_hash)
        /\ validate_authority_source(resolved(bundle.authority_hash)) = ""
        /\ resolves_intact(bundle.proposal_hash)
        /\ validate_proposal(resolved(bundle.proposal_hash)) = ""
        /\ resolves_intact(bundle.counterfactual_hash)
        /\ validate_counterfactual_summary(resolved(bundle.counterfactual_hash)) = ""
        /\ \A i \in 1..Len(bundle.gate_result_hashes) :
              /\ resolves_intact(bundle.gate_result_hashes[i])
              /\ validate_gate_result(resolved(bundle.gate_result_hashes[i])) = ""
        /\ \A i \in 1..Len(bundle.capability_hashes) :
              /\ resolves_intact(bundle.capability_hashes[i])
              /\ validate_capability_token(resolved(bundle.capability_hashes[i])) = ""
              /\ resolved(bundle.capability_hashes[i]).authority_hash
                     = bundle.authority_hash

\* C25: for a bundle whose referenced nodes all resolve and validate and
\* whose will_emit_execution_record is false, is_admissible and refusal_mode
\* both raise KernelCrash UNLOGGED_EXECUTION, so the bundle is neither
\* admitted nor given a refusal mode, also when the authority denies
\* execution or a gate result is FAIL.
C25_UnloggedBundleRaises ==
    (nodes_resolve_and_validate
     /\ bundle_of(adm_in).will_emit_execution_record = Bool(FALSE)) =>
        /\ adm_out.is_admissible # <<>> =>
              adm_out.is_admissible[1].crash = UNLOGGED_EXECUTION
        /\ adm_out.refusal_mode # <<>> =>
              adm_out.refusal_mode[1].crash = UNLOGGED_EXECUTION

\* Both calls raised UNLOGGED_EXECUTION for a bundle of valid nodes with a
\* denying authority and a FAIL gate.
C25_Witness ==
    /\ nodes_resolve_and_validate
    /\ ~adm_in.will_emit
    /\ adm_in.authority = "deny"
    /\ \E i \in 1..Len(adm_in.gates) : adm_in.gates[i] = "FAIL"
    /\ Len(adm_in.capabilities) >= 1
    /\ adm_out.is_admissible # <<>>
    /\ adm_out.refusal_mode # <<>>
    /\ adm_out.is_admissible[1].crash = UNLOGGED_EXECUTION
    /\ adm_out.refusal_mode[1].crash = UNLOGGED_EXECUTION

\* The code with which resolving the node of a hash and validating it fails,
\* "" when both pass.
node_check(h, validate_node(_)) ==
    IF h = None \/ resolver(store_of(adm_in), h) = <<>> THEN EVIDENCE_MISSING
    ELSE IF ~resolves_intact(h) THEN INTEGRITY_VIOLATION
    ELSE validate_node(resolved(h))

\* The checks of an evaluation in their order, each with the code it fails
\* with ("" when it passes): bundle hash and schema, authority, proposal,
\* counterfactual, the gate results as listed, the capability tokens as
\* listed, will_emit_execution_record.
checks_in_order ==
    LET bundle == bundle_of(adm_in)
        gates == bundle.gate_result_hashes
        capabilities == bundle.capability_hashes
    IN  << IF "hash" \notin DOMAIN bundle THEN EVIDENCE_MISSING
           ELSE IF bundle.hash # hash_object(without(bundle, "hash"))
           THEN INTEGRITY_VIOLATION
           ELSE validate_evidence_bundle(bundle),
           node_check(bundle.authority_hash, validate_authority_source),
           node_check(bundle.proposal_hash, validate_proposal),
           node_check(bundle.counterfactual_hash, validate_counterfactual_summary) >>
        \o [i \in 1..Len(gates) |-> node_check(gates[i], validate_gate_result)]
        \o [i \in 1..Len(capabilities) |->
               IF node_check(capabilities[i], validate_capability_token) # ""
               THEN node_check(capabilities[i], validate_capability_token)
               ELSE IF resolved(capabilities[i]).authority_hash # bundle.authority_hash
               THEN INTEGRITY_VIOLATION
               ELSE ""]
        \o << IF bundle.will_emit_execution_record # Bool(TRUE) THEN UNLOGGED_EXECUTION
              ELSE "" >>

\* The crash code is that of the first failing check, "" when none fails.
first_failing(code) ==
    LET checks == checks_in_order
    IN  \/ code = "" /\ \A i \in 1..Len(checks) : checks[i] = ""
        \/ \E i \in 1..Len(checks) :
              /\ checks[i] # ""
              /\ checks[i] = code
              /\ \A j \in 1..(i - 1) : checks[j] = ""

\* C37: admissibility evaluation applies its checks in the fixed order bundle
\* hash and schema, authority, proposal, counterfactual, gate results in
\* listed order, capability tokens in listed order,
\* will_emit_execution_record; when several checks would fail the crash code
\* raised is that of the first failing check in this order, and is_admissible
\* and refusal_mode raise the same code for the same bundle and resolver.
C37_FirstFailingCheckDecides ==
    /\ adm_out.is_admissible # <<>> => first_failing(adm_out.is_admissible[1].crash)
    /\ adm_out.refusal_mode # <<>> => first_failing(adm_out.refusal_mode[1].crash)
    /\ (adm_out.is_admissible # <<>> /\ adm_out.refusal_mode # <<>>) =>
          adm_out.is_admissible[1].crash = adm_out.refusal_mode[1].crash

\* Two gates fail with different codes, the first missing from the resolver
\* and the second not deterministic: both calls raised EVIDENCE_MISSING.
C37_Witness ==
    /\ adm_out.is_admissible # <<>>
    /\ adm_out.refusal_mode # <<>>
    /\ Len(adm_in.gates) = 2
    /\ adm_in.gates[2] = "nondeterministic"
    /\ adm_in.fault = [at |-> "gate", how |-> "missing"]
    /\ checks_in_order[5] = EVIDENCE_MISSING
    /\ checks_in_order[6] = DETERMINISM_BREACH
    /\ adm_out.is_admissible[1].crash = EVIDENCE_MISSING
    /\ adm_out.refusal_mode[1].crash = EVIDENCE_MISSING

(***************************************************************************)
(* The config freeze controller: load_config.                              *)
(* The environment is a record of the ADAAD6_-prefixed keys; "" (<<>> for  *)
(* CONFIG_SIG and READINESS_GATE_SIG) is a key that is unset. Raw values   *)
(* are lower-case and stripped except where a table below says otherwise.  *)
(* Seconds are in hundredths, resource scaling in tenths.                  *)
(***************************************************************************)
\* hmac.new(key, payload, sha256).hexdigest()
hmac_sha256(key, payload) == <<"hmac-sha256", key, payload>>

\* _get_env: whether the environment holds the key.
is_set(env, key) ==
    IF key \in {"CONFIG_SIG", "READINESS_GATE_SIG"} THEN env[key] # <<>> ELSE env[key] # ""

\* _canonical_env_payload: KEY=VALUE lines of the prefixed keys other than
\* the signature triple, sorted by key.
_canonical_env_payload(env) ==
    LET sorted == << "AGENTS_ENABLED", "CONFIG_SCHEMA_VERSION", "CONFIG_SIG_REQUIRED",
                     "EMERGENCY_HALT", "LEDGER_ENABLED", "LEDGER_READONLY", "MODE",
                     "MUTATION_POLICY", "PLANNER_MAX_SECONDS", "PLANNER_MAX_STEPS",
                     "READINESS_GATE_SIG", "RESOURCE_TIER" >>
        ks == SelectSeq(sorted, LAMBDA k : is_set(env, k))
    IN  [i \in 1..Len(ks) |-> <<ks[i], env[ks[i]]>>]

\* _coerce_bool: the value, or raised.
_coerce_bool(value) ==
    IF value \in {"1", "true", "yes", "on"} THEN [raised |-> FALSE, value |-> TRUE]
    ELSE IF value \in {"0", "false", "no", "off"} THEN [raised |-> FALSE, value |-> FALSE]
    ELSE [raised |-> TRUE, value |-> FALSE]

\* _coerce_int and _coerce_float on the raw values that parse (floats in
\* hundredths); a raw value outside the domain raises ValueError.
_coerce_int == [raw \in {"50", "0"} |-> IF raw = "50" THEN 50 ELSE 0]
_coerce_float == [raw \in {"200"} |-> 20000]

\* The key providers: the default _dev_env_key_provider, a provider that
\* returns a key, and one that returns None.
key_provider(name, env) ==
    IF name = "_dev_env_key_provider" THEN env.CONFIG_SIG_KEY
    ELSE IF name = "vault" THEN "k1"
    ELSE ""

\* _require_sig_alg: alg.upper() == SIG_ALG
_require_sig_alg(env) ==
    LET upper == [a \in {"hmac-sha256", "HMAC-SHA256", "MD5"} |->
                     IF a = "hmac-sha256" THEN "HMAC-SHA256" ELSE a]
    IN  IF env.CONFIG_SIG_ALG = "" THEN FALSE ELSE upper[env.CONFIG_SIG_ALG] = "HMAC-SHA256"

\* _verify_env_signature
_verify_env_signature(env, mode, provider) ==
    IF ~_require_sig_alg(env) THEN FALSE
    ELSE IF env.CONFIG_SCHEMA_VERSION # CONFIG_SCHEMA_VERSION THEN FALSE
    ELSE IF ~is_set(env, "CONFIG_SIG") THEN FALSE
    ELSE IF mode = "prod" /\ env.CONFIG_SIG_KEY # "" THEN FALSE
    ELSE IF key_provider(provider, env) = "" THEN FALSE
    ELSE hmac_sha256(key_provider(provider, env), _canonical_env_payload(env))
             = env.CONFIG_SIG

\* _resource_scaling_for_tier, in tenths.
_resource_scaling_for_tier(tier) ==
    IF tier = "mobile" THEN 25 ELSE IF tier = "edge" THEN 15 ELSE 10

must_freeze_on_signature_only(schema_mismatch, sig_required, sig_ok) ==
    sig_required /\ ~sig_ok

\* load_config: must_freeze.
must_freeze_of(schema_mismatch, sig_required, sig_ok) ==
    schema_mismatch \/ (sig_required /\ ~sig_ok)

emergency_overrides_keep_steps(c, emergency_halt) ==
    IF ~emergency_halt THEN c
    ELSE [c EXCEPT !.mutation_policy = "locked", !.readiness_gate_sig = None,
                   !.agents_enabled = FALSE, !.ledger_readonly = TRUE,
                   !.planner_max_seconds = 1,
                   !.ledger_enabled = TRUE, !.emergency_halt = TRUE,
                   !.freeze_reason = "EMERGENCY_HALT"]

\* load_config: "emergency halt dominates" and the fields of the AdaadConfig
\* built after it that depend on emergency_halt.
emergency_overrides(c, emergency_halt) ==
    IF ~emergency_halt THEN c
    ELSE [c EXCEPT !.mutation_policy = "locked", !.readiness_gate_sig = None,
                   !.agents_enabled = FALSE, !.ledger_readonly = TRUE,
                   !.planner_max_steps = 1, !.planner_max_seconds = 1,
                   !.ledger_enabled = TRUE, !.emergency_halt = TRUE,
                   !.freeze_reason = "EMERGENCY_HALT"]

halt_unset(raw) == [raised |-> FALSE, value |-> FALSE]

\* load_config: emergency_halt from its raw value (False when unset).
emergency_halt_of(raw) ==
    IF raw = "" THEN [raised |-> FALSE, value |-> FALSE] ELSE _coerce_bool(raw)

\* What load_config does: the exception it raises, or the config it returns.
Raises(msg) == [raised |-> <<"ValueError", msg>>, cfg |-> <<>>]
Validated(c) ==
    IF validate(c) # <<>> THEN [raised |-> validate(c), cfg |-> <<>>]
    ELSE [raised |-> <<>>, cfg |-> <<c>>]

frozen_config_halt_reason(mode, tier, reason) ==
    [DefaultConfig EXCEPT !.mode = mode, !.mutation_policy = "locked",
                          !.planner_max_steps = 1, !.planner_max_seconds = 1,
                          !.ledger_enabled = TRUE, !.ledger_readonly = TRUE,
                          !.emergency_halt = TRUE, !.agents_enabled = FALSE,
                          !.freeze_reason = "EMERGENCY_HALT", !.resource_tier = tier,
                          !.resource_scaling = _resource_scaling_for_tier(tier)]

\* load_config: the AdaadConfig of the freeze path.
frozen_config(mode, tier, reason) ==
    [DefaultConfig EXCEPT !.mode = mode, !.mutation_policy = "locked",
                          !.planner_max_steps = 1, !.planner_max_seconds = 1,
                          !.ledger_enabled = TRUE, !.ledger_readonly = TRUE,
                          !.emergency_halt = TRUE, !.agents_enabled = FALSE,
                          !.freeze_reason = reason, !.resource_tier = tier,
                          !.resource_scaling = _resource_scaling_for_tier(tier)]

\* load_config: the normal load, after the signature gate has passed.
normal_load(env, mode, emergency_halt) ==
    LET policy == IF env.MUTATION_POLICY = "" THEN "locked" ELSE env.MUTATION_POLICY
        max_steps == IF env.PLANNER_MAX_STEPS = "" THEN DefaultConfig.planner_max_steps
                 ELSE _coerce_int[env.PLANNER_MAX_STEPS]
        max_seconds == IF env.PLANNER_MAX_SECONDS = "" THEN DefaultConfig.planner_max_seconds
                   ELSE _coerce_float[env.PLANNER_MAX_SECONDS]
        enabled == IF env.LEDGER_ENABLED = "" THEN [raised |-> FALSE, value |-> FALSE]
                   ELSE _coerce_bool(env.LEDGER_ENABLED)
        readonly == IF env.LEDGER_READONLY = "" THEN [raised |-> FALSE, value |-> FALSE]
                    ELSE _coerce_bool(env.LEDGER_READONLY)
        agents == IF env.AGENTS_ENABLED = "" THEN [raised |-> FALSE, value |-> TRUE]
                  ELSE _coerce_bool(env.AGENTS_ENABLED)
        tier == IF env.RESOURCE_TIER = "" THEN "mobile" ELSE env.RESOURCE_TIER
        scaling == _resource_scaling_for_tier(tier)
        \* min(300.0, max(0.01, planner_max_seconds * scaling))
        s == (max_seconds * scaling) \div 10
        scaled_seconds == IF s < 1 THEN 1 ELSE IF s > 30000 THEN 30000 ELSE s
        c == [DefaultConfig EXCEPT
                 !.mode = mode, !.mutation_policy = policy,
                 !.readiness_gate_sig = env.READINESS_GATE_SIG,
                 !.planner_max_steps = max_steps,
                 !.planner_max_seconds = scaled_seconds,
                 !.resource_tier = tier, !.resource_scaling = scaling,
                 !.ledger_enabled = enabled.value, !.ledger_readonly = readonly.value,
                 !.agents_enabled = agents.value]
    IN  IF policy \notin {"locked", "sandboxed", "evolutionary"} THEN Raises("Invalid mutation_policy")
        ELSE IF env.PLANNER_MAX_STEPS \notin DOMAIN _coerce_int \cup {""}
        THEN Raises("Invalid integer for planner_max_steps")
        ELSE IF env.PLANNER_MAX_SECONDS \notin DOMAIN _coerce_float \cup {""}
        THEN Raises("Invalid float for planner_max_seconds")
        ELSE IF enabled.raised \/ readonly.raised \/ agents.raised
        THEN Raises("Invalid boolean value")
        ELSE IF tier \notin {"mobile", "edge", "server"} THEN Raises("Invalid resource_tier")
        ELSE Validated(emergency_overrides(c, emergency_halt))

\* load_config
load_config(env, provider) ==
    LET mode == IF env.MODE = "" THEN "dev" ELSE env.MODE
        schema_mismatch ==
            env.CONFIG_SCHEMA_VERSION # "" /\ env.CONFIG_SCHEMA_VERSION # CONFIG_SCHEMA_VERSION
        required == IF env.CONFIG_SIG_REQUIRED = "" THEN [raised |-> FALSE, value |-> TRUE]
                    ELSE _coerce_bool(env.CONFIG_SIG_REQUIRED)
        sig_required ==
            (mode = "prod" /\ provider = "_dev_env_key_provider") \/ required.value
        halt == emergency_halt_of(env.EMERGENCY_HALT)
        sig_ok == IF sig_required THEN _verify_env_signature(env, mode, provider) ELSE TRUE
        tier == IF env.RESOURCE_TIER = "" THEN "mobile" ELSE env.RESOURCE_TIER
        reason ==
            IF schema_mismatch THEN "CONFIG_SCHEMA_VERSION_MISMATCH"
            ELSE IF mode = "prod" /\ provider = "_dev_env_key_provider"
            THEN "CONFIG_SIG_KEY_PROVIDER_REQUIRED"
            ELSE IF key_provider(provider, env) = "" THEN "CONFIG_SIG_KEY_UNAVAILABLE"
            ELSE "CONFIG_SIG_INVALID"
    IN  IF mode \notin {"dev", "prod"} THEN Raises("Invalid mode")
        ELSE IF required.raised \/ halt.raised THEN Raises("Invalid boolean value")
        ELSE IF must_freeze_of(schema_mismatch, sig_required, sig_ok)
        THEN IF tier \notin {"mobile", "edge", "server"} THEN Raises("Invalid resource_tier")
             ELSE Validated(frozen_config(mode, tier, reason))
        ELSE normal_load(env, mode, halt.value)

(***************************************************************************)
(* The environments load_config is applied to.                             *)
(***************************************************************************)
\* The keys that ask for an operating mode, in four profiles: all unset,
\* everything permissive, a sandboxed edge node with a zero step budget,
\* and an unknown resource tier.
Profiles ==
    LET Unset ==
            [MUTATION_POLICY |-> "", READINESS_GATE_SIG |-> <<>>, PLANNER_MAX_STEPS |-> "",
             PLANNER_MAX_SECONDS |-> "", LEDGER_ENABLED |-> "", LEDGER_READONLY |-> "",
             AGENTS_ENABLED |-> "", RESOURCE_TIER |-> ""]
    IN  { Unset,
          [MUTATION_POLICY |-> "evolutionary", READINESS_GATE_SIG |-> ValidReadinessSig,
           PLANNER_MAX_STEPS |-> "50", PLANNER_MAX_SECONDS |-> "200",
           LEDGER_ENABLED |-> "false", LEDGER_READONLY |-> "false",
           AGENTS_ENABLED |-> "true", RESOURCE_TIER |-> "server"],
          [Unset EXCEPT !.MUTATION_POLICY = "sandboxed", !.PLANNER_MAX_STEPS = "0",
                        !.LEDGER_ENABLED = "true", !.LEDGER_READONLY = "true",
                        !.AGENTS_ENABLED = "false", !.RESOURCE_TIER = "edge"],
          [Unset EXCEPT !.RESOURCE_TIER = "quantum"] }

\* The keys that decide the freeze.
Controls ==
    [MODE : {"", "prod", "staging"}, CONFIG_SCHEMA_VERSION : {"", "1", "2"},
     CONFIG_SIG_REQUIRED : {"", "true", "false"},
     EMERGENCY_HALT : {"", "true", "false", "perhaps"},
     CONFIG_SIG_ALG : {"", "hmac-sha256", "MD5"}, CONFIG_SIG_KEY : {"", "k1"}]

\* Record union of two records with disjoint fields.
merge(r, s) ==
    [k \in DOMAIN r \cup DOMAIN s |-> IF k \in DOMAIN r THEN r[k] ELSE s[k]]

\* The CONFIG_SIG values: unset, signed with the key k1, signed with
\* another key, and a k1 signature of another environment.
sign(body, kind) ==
    IF kind = "unset" THEN <<>>
    ELSE IF kind = "stale" THEN hmac_sha256("k1", << <<"MODE", "test">> >>)
    ELSE hmac_sha256(kind, _canonical_env_payload(body))

CfgInputs ==
    { [env |-> merge(merge(p, c),
                     [CONFIG_SIG |-> sign(merge(merge(p, c), [CONFIG_SIG |-> <<>>]), s)]),
       key_provider |-> kp] :
      p \in Profiles, c \in Controls, s \in {"unset", "k1", "k2", "stale"},
      kp \in {"_dev_env_key_provider", "vault", "empty_vault"} }

\* load_config(env, key_provider=...)
LoadConfig ==
    /\ cfg_in # <<>>
    /\ cfg_out = <<>>
    /\ cfg_out' = <<load_config(cfg_in.env, cfg_in.key_provider)>>
    /\ UNCHANGED <<fs, ledgerVars, execVars, adm_in, adm_out, cfg_in, mapVars, mutVars,
                   orchVars>>

InitCfg ==
    /\ fs = [parent |-> FALSE, kind |-> "absent", lines |-> <<>>]
    /\ LedgerIdle
    /\ ExecIdle
    /\ OrchIdle
    /\ adm_in = <<>>
    /\ adm_out = <<>>
    /\ OtherIdle
    /\ cfg_in \in CfgInputs
    /\ cfg_out = <<>>

NextCfg == LoadConfig

SpecCfg == InitCfg /\ [][NextCfg]_vars

(***************************************************************************)
(* Properties of load_config.                                              *)
(***************************************************************************)
\* load_config has returned a config (it did not raise).
returned == cfg_out # <<>> /\ cfg_out[1].cfg # <<>>
returned_cfg == cfg_out[1].cfg[1]

\* The fields of the frozen configuration (0.01 s is 1 hundredth).
frozen(c) ==
    /\ c.mutation_policy = "locked"
    /\ c.ledger_enabled
    /\ c.ledger_readonly
    /\ ~c.agents_enabled
    /\ c.planner_max_steps = 1
    /\ c.planner_max_seconds = 1

\* What the environment asks for, read off the raw values.
asked_mode == IF cfg_in.env.MODE = "" THEN "dev" ELSE cfg_in.env.MODE
schema_mismatches == cfg_in.env.CONFIG_SCHEMA_VERSION \notin {"", CONFIG_SCHEMA_VERSION}
prod_fallback_provider ==
    asked_mode = "prod" /\ cfg_in.key_provider = "_dev_env_key_provider"
signature_required ==
    prod_fallback_provider \/ cfg_in.env.CONFIG_SIG_REQUIRED \in {"", "1", "true", "yes", "on"}
signature_verifies == _verify_env_signature(cfg_in.env, asked_mode, cfg_in.key_provider)
key_available == key_provider(cfg_in.key_provider, cfg_in.env) # ""
verification_fails == schema_mismatches \/ (signature_required /\ ~signature_verifies)

\* The freeze_reason of each failure class, the earlier class winning.
failure_class ==
    IF schema_mismatches THEN "CONFIG_SCHEMA_VERSION_MISMATCH"
    ELSE IF prod_fallback_provider THEN "CONFIG_SIG_KEY_PROVIDER_REQUIRED"
    ELSE IF ~key_available THEN "CONFIG_SIG_KEY_UNAVAILABLE"
    ELSE "CONFIG_SIG_INVALID"

\* C6: every config load_config returns with emergency_halt=true has
\* mutation_policy=LOCKED, ledger_enabled, ledger_readonly, agents disabled,
\* planner_max_steps=1 and planner_max_seconds=0.01, whether the halt comes
\* from a verification failure or from EMERGENCY_HALT=true and whatever the
\* other environment keys ask for.
C6_HaltedConfigIsFrozen ==
    (returned /\ returned_cfg.emergency_halt) => frozen(returned_cfg)

\* EMERGENCY_HALT=true on a verified environment that asks for evolutionary
\* mutation, 50 steps, agents and a writable, disabled ledger.
C6_Witness ==
    /\ returned
    /\ returned_cfg.emergency_halt
    /\ cfg_in.env.EMERGENCY_HALT = "true"
    /\ ~verification_fails
    /\ cfg_in.env.MUTATION_POLICY = "evolutionary"
    /\ cfg_in.env.PLANNER_MAX_STEPS = "50"
    /\ cfg_in.env.AGENTS_ENABLED = "true"
    /\ cfg_in.env.LEDGER_ENABLED = "false"

\* C7: when the schema version mismatches, prod mode runs with the fallback
\* key provider, or the required signature fails to verify, a config that
\* load_config returns is frozen with emergency_halt=true and freeze_reason
\* naming the failure class: CONFIG_SCHEMA_VERSION_MISMATCH for a schema
\* mismatch (also with CONFIG_SIG_REQUIRED=false), else
\* CONFIG_SIG_KEY_PROVIDER_REQUIRED for the prod fallback provider (also with
\* CONFIG_SIG_REQUIRED=false), else CONFIG_SIG_KEY_UNAVAILABLE when the
\* provider has no key, else CONFIG_SIG_INVALID.
C7_VerificationFailureFreezes ==
    (returned /\ (verification_fails \/ prod_fallback_provider)) =>
        /\ returned_cfg.emergency_halt
        /\ frozen(returned_cfg)
        /\ returned_cfg.freeze_reason = failure_class

\* A schema mismatch with the signature not required.
C7_Witness ==
    /\ returned
    /\ schema_mismatches
    /\ cfg_in.env.CONFIG_SIG_REQUIRED = "false"
    /\ ~prod_fallback_provider
    /\ returned_cfg.freeze_reason = "CONFIG_SCHEMA_VERSION_MISMATCH"

\* C8 as stated: with EMERGENCY_HALT=true load_config returns the frozen
\* configuration with freeze_reason = EMERGENCY_HALT, whether the signature
\* is valid, invalid or not required.
C8_HaltReasonWhateverSignature ==
    (returned /\ cfg_in.env.EMERGENCY_HALT = "true") =>
        /\ returned_cfg.emergency_halt
        /\ frozen(returned_cfg)
        /\ returned_cfg.freeze_reason = "EMERGENCY_HALT"

\* C8 amended: with EMERGENCY_HALT=true a config that load_config returns is
\* the frozen configuration whatever the signature outcome; its freeze_reason
\* is EMERGENCY_HALT when the signature is valid or not required and the
\* schema version matches, and one of the four verification failure classes
\* when the schema mismatches or the required signature fails.
C8_HaltFreezesWhateverSignature ==
    (returned /\ cfg_in.env.EMERGENCY_HALT = "true") =>
        /\ returned_cfg.emergency_halt
        /\ frozen(returned_cfg)
        /\ ~verification_fails => returned_cfg.freeze_reason = "EMERGENCY_HALT"
        /\ verification_fails =>
               returned_cfg.freeze_reason \in
                   {"CONFIG_SCHEMA_VERSION_MISMATCH", "CONFIG_SIG_KEY_PROVIDER_REQUIRED",
                    "CONFIG_SIG_KEY_UNAVAILABLE", "CONFIG_SIG_INVALID"}

\* EMERGENCY_HALT=true with a signature that is not required.
C8_Witness ==
    /\ returned
    /\ cfg_in.env.EMERGENCY_HALT = "true"
    /\ cfg_in.env.CONFIG_SIG_REQUIRED = "false"
    /\ ~signature_required
    /\ ~schema_mismatches
    /\ returned_cfg.freeze_reason = "EMERGENCY_HALT"
    /\ frozen(returned_cfg)

\* The signature is required by CONFIG_SIG_REQUIRED=true and the environment
\* holds no CONFIG_SIG that verifies.
required_and_not_valid ==
    /\ returned
    /\ cfg_in.env.CONFIG_SIG_REQUIRED = "true"
    /\ ~signature_verifies

\* C31 as stated: with the config signature required and no valid CONFIG_SIG
\* in the environment, load_config returns emergency_halt=true,
\* mutation_policy=LOCKED, ledger_readonly=true and
\* freeze_reason = CONFIG_SIG_INVALID.
C31_RequiredSignatureInvalidReason ==
    required_and_not_valid =>
        /\ returned_cfg.emergency_halt
        /\ returned_cfg.mutation_policy = "locked"
        /\ returned_cfg.ledger_readonly
        /\ returned_cfg.freeze_reason = "CONFIG_SIG_INVALID"

\* C31: with the config signature required and no valid CONFIG_SIG, a config
\* load_config returns has emergency_halt=true, mutation_policy=LOCKED and
\* ledger_readonly=true; its freeze_reason is CONFIG_SIG_INVALID when the
\* schema version matches, the key provider is not the prod fallback and it
\* yields a key, and otherwise CONFIG_SCHEMA_VERSION_MISMATCH,
\* CONFIG_SIG_KEY_PROVIDER_REQUIRED or CONFIG_SIG_KEY_UNAVAILABLE.
C31_RequiredSignatureFreezes ==
    required_and_not_valid =>
        /\ returned_cfg.emergency_halt
        /\ returned_cfg.mutation_policy = "locked"
        /\ returned_cfg.ledger_readonly
        /\ (~schema_mismatches /\ ~prod_fallback_provider /\ key_available) <=>
               returned_cfg.freeze_reason = "CONFIG_SIG_INVALID"
        /\ returned_cfg.freeze_reason \in
               {"CONFIG_SCHEMA_VERSION_MISMATCH", "CONFIG_SIG_KEY_PROVIDER_REQUIRED",
                "CONFIG_SIG_KEY_UNAVAILABLE", "CONFIG_SIG_INVALID"}

\* A required signature made with another key, on an environment that asks
\* for evolutionary mutation and a writable ledger.
C31_Witness ==
    /\ required_and_not_valid
    /\ cfg_in.env.CONFIG_SIG = hmac_sha256("k2", _canonical_env_payload(cfg_in.env))
    /\ cfg_in.env.CONFIG_SIG_ALG = "hmac-sha256"
    /\ cfg_in.env.CONFIG_SCHEMA_VERSION = CONFIG_SCHEMA_VERSION
    /\ cfg_in.key_provider = "vault"
    /\ cfg_in.env.MUTATION_POLICY = "evolutionary"
    /\ cfg_in.env.LEDGER_READONLY = "false"
    /\ returned_cfg.freeze_reason = "CONFIG_SIG_INVALID"
    /\ returned_cfg.emergency_halt
    /\ returned_cfg.ledger_readonly

====
